---- MODULE Spec2Model ----
(***************************************************************************)
(* CCBHC quality-measure pipeline (WorkingEnv/DataPipeline/CCBHC           *)
(* Measurements).  Tables are sequences of records (row order matters:     *)
(* drop_duplicates keeps the first or last row), dates are day numbers     *)
(* since 1970-01-01, and patient_measurement_year_id strings are sequences *)
(* of one-character strings so that slicing (str[:-2], val[:11]) is        *)
(* computed, not assumed.                                                   *)
(***************************************************************************)
EXTENDS Integers, Sequences, FiniteSets, TLC

VARIABLES
    src,        \* the snapshot of the clinical database the queries read
    pc,         \* the sub-measure's state: Uninitialized .. Final, or Failed
    populace,   \* Submeasure.__populace__
    stratify,   \* Submeasure.__stratify__
    aux,        \* the sub-measure's extra field (__index_visits__, __EXCLUSIONS__)
    err,        \* the exception that ended the sub-measure, or "none"
    out,        \* what return_final_data returned: [cohort, stratify]
    measure,    \* main.py: the position in measure_list (0 outside a batch run)
    sub,        \* the sub-measure get_submeasure_data is driving, or "none"
    calls,      \* the methods called on sub-measures during this get_submeasure_data
    sub_data,   \* the results dictionary of get_submeasure_data, in insertion order
    sink,       \* the pt* tables of the database that main.py writes with to_sql
    start,      \* the sink as each run of main.py found it, one entry per run
    faulted     \* whether a query of a run was failed by the database

vars == <<src, pc, populace, stratify, aux, err, out, measure, sub, calls, sub_data, sink,
          start, faulted>>

\* the part of the state that belongs to the batch run of main.py
batchVars == <<measure, sub, calls, sub_data, sink, start, faulted>>

\* pandas NaT / NaN of a nullable date or id column
NaT == -1

-----------------------------------------------------------------------------
(* Table helpers: the pandas operations the measures use.                  *)

\* F(e) with e evaluated once, however often F reads its parameter
Once(e, F(_)) == CHOOSE r \in {F(v) : v \in {e}} : TRUE

\* the rows of s at the positions of keep, in order
RECURSIVE PickFrom(_, _, _)
PickFrom(s, keep, i) ==
    IF i > Len(s) THEN <<>>
    ELSE (IF i \in keep THEN <<s[i]>> ELSE <<>>) \o PickFrom(s, keep, i + 1)

\* df[mask]
Filter(s, Test(_)) == SelectSeq(s, Test)

\* df.drop_duplicates(subset=key, keep='first')
DropDupFirst(s, Key(_)) ==
    LET First(v) ==
            PickFrom(v, {i \in 1..Len(v) : \A j \in 1..(i - 1) : Key(v[j]) # Key(v[i])}, 1)
    IN  Once(s, First)

\* df.drop_duplicates(subset=key, keep='last')
DropDupLast(s, Key(_)) ==
    LET Last(v) ==
            PickFrom(v, {i \in 1..Len(v) : \A j \in (i + 1)..Len(v) : Key(v[j]) # Key(v[i])}, 1)
    IN  Once(s, Last)

\* df.sort_values([...]): a stable sort, rows that compare equal keep their order
SortBy(s, Less(_, _)) ==
    LET Sorted(v) ==
            LET n == Len(v)
                Pos(i) == Cardinality({j \in 1..n : Less(v[j], v[i])
                                          \/ (~Less(v[i], v[j]) /\ j < i)}) + 1
            IN  [k \in 1..n |-> v[CHOOSE i \in 1..n : Pos(i) = k]]
    IN  Once(s, Sorted)

\* [f(row) for row in df]
RECURSIVE FlatMapFrom(_, _, _)
FlatMapFrom(s, F(_), i) ==
    IF i > Len(s) THEN <<>> ELSE F(s[i]) \o FlatMapFrom(s, F, i + 1)

FlatMap(s, F(_), i) ==
    LET From(v) == FlatMapFrom(v, F, i) IN Once(s, From)

Rows(s) == LET Range(v) == {v[i] : i \in 1..Len(v)} IN Once(s, Range)

\* every sequence over S of length lo..hi
SeqsOf(S, lo, hi) == UNION {[1..n -> S] : n \in lo..hi}

-----------------------------------------------------------------------------
(* Calendar: proleptic Gregorian, as datetime / pandas.Timestamp.          *)

DaysFromCivil(y, m, d) ==
    LET yy  == IF m <= 2 THEN y - 1 ELSE y
        era == yy \div 400
        yoe == yy - era * 400
        mp  == (m + 9) % 12
        doy == (153 * mp + 2) \div 5 + d - 1
        doe == yoe * 365 + yoe \div 4 - yoe \div 100 + doy
    IN  era * 146097 + doe - 719468

CivilFromDays(z0) ==
    LET z   == z0 + 719468
        era == z \div 146097
        doe == z - era * 146097
        yoe == (doe - doe \div 1460 + doe \div 36524 - doe \div 146096) \div 365
        doy == doe - (365 * yoe + yoe \div 4 - yoe \div 100)
        mp  == (5 * doy + 2) \div 153
        d   == doy - (153 * mp + 2) \div 5 + 1
        m   == IF mp < 10 THEN mp + 3 ELSE mp - 9
        y   == yoe + era * 400 + (IF m <= 2 THEN 1 ELSE 0)
    IN  [year |-> y, month |-> m, day |-> d]

YearOf(z) == CivilFromDays(z).year
MonthOf(z) == CivilFromDays(z).month

IsLeap(y) == (y % 4 = 0 /\ y % 100 # 0) \/ y % 400 = 0

DaysInMonth(y, m) ==
    IF m = 2 THEN (IF IsLeap(y) THEN 29 ELSE 28)
    ELSE IF m \in {4, 6, 9, 11} THEN 30 ELSE 31

\* date + relativedelta(months=k) / pd.DateOffset(months=k): the day of the month
\* is clamped to the target month's last day
AddMonths(z, k) ==
    LET c  == CivilFromDays(z)
        t  == c.year * 12 + (c.month - 1) + k
        y  == t \div 12
        m  == (t % 12) + 1
        dm == DaysInMonth(y, m)
    IN  DaysFromCivil(y, m, IF c.day > dm THEN dm ELSE c.day)

-----------------------------------------------------------------------------
(* Strings: str(int), concatenation and slicing.                           *)

DigitChars == <<"0", "1", "2", "3", "4", "5", "6", "7", "8", "9">>

RECURSIVE IntStr(_)
\* str(n) of a non-negative int
IntStr(n) == IF n < 10 THEN <<DigitChars[n + 1]>>
             ELSE IntStr(n \div 10) \o <<DigitChars[(n % 10) + 1]>>

\* str(x) of a float64 holding a whole number: '2024.0'
FloatStr(n) == IntStr(n) \o <<".", "0">>

NanStr == <<"n", "a", "n">>

TwoDigits(n) == <<DigitChars[(n \div 10) + 1], DigitChars[(n % 10) + 1]>>

\* str of a datetime64 value: 'YYYY-MM-DD'
DateStr(z) ==
    LET c == CivilFromDays(z)
    IN  IntStr(c.year) \o <<"-">> \o TwoDigits(c.month) \o <<"-">> \o TwoDigits(c.day)

\* s[:n] for n >= 0
Prefix(s, n) == SubSeq(s, 1, IF n < Len(s) THEN n ELSE Len(s))

\* s[:-n]
DropLast(s, n) == SubSeq(s, 1, IF Len(s) > n THEN Len(s) - n ELSE 0)

CharRank(c) ==
    CASE c = "-" -> 0 [] c = "." -> 1 [] c = "a" -> 20 [] c = "n" -> 21
      [] OTHER -> 1 + CHOOSE k \in 1..10 : DigitChars[k] = c

RECURSIVE StrLess(_, _)
\* a < b for str
StrLess(a, b) ==
    IF b = <<>> THEN FALSE
    ELSE IF a = <<>> THEN TRUE
    ELSE IF Head(a) # Head(b) THEN CharRank(Head(a)) < CharRank(Head(b))
    ELSE StrLess(Tail(a), Tail(b))

\* PatientId.astype(str) + '-' + year.astype(str)
PmyId(pid, year) == IntStr(pid) \o <<"-">> \o IntStr(year)

\* [f(row) for each row]
Map(s, F(_)) == LET Each(v) == [i \in 1..Len(v) |-> F(v[i])] IN Once(s, Each)

\* the exception a step raised, or "none"
NoError == "none"

-----------------------------------------------------------------------------
(* ASC sub-measure 1 (ASC.py, class _Sub_1).                               *)
(* src.encounters, src.preventive: rows PatientId, Age, EncounterID,       *)
(* encounter_date, measurement_year; src.dementia: PatientId,              *)
(* exclusion_year; src.screenings: PatientId, screening_date;              *)
(* src.patient_data: PatientId, Ethnicity, Race; src.payers: PatientId,    *)
(* Start, End, Plan; src.strictDates: whether the installed pandas refuses *)
(* to order a Timestamp against a datetime.date (pandas >= 2.0) or reads   *)
(* the date as midnight (pandas 1.x).                                      *)

ASC1_WithKey(r) ==
    r @@ [patient_measurement_year_id |-> PmyId(r.PatientId, r.measurement_year)]

\* __create_patient_measurement_year_id
ASC1_create_patient_measurement_year_id(rows) == Map(rows, ASC1_WithKey)

\* __number_of_visits_filter: (size() >= 2).reset_index() keeps one row per group
\* whatever the comparison gave, so the list holds every key
ASC1_number_of_visits_filter(rows) ==
    LET sizes == [k \in {r.patient_measurement_year_id : r \in Rows(rows)} |->
                    Cardinality({i \in 1..Len(rows) : rows[i].patient_measurement_year_id = k}) >= 2]
        multiple_visits == DOMAIN sizes
        InList(r) == r.patient_measurement_year_id \in multiple_visits
    IN  Filter(rows, InList)

\* __get_two_or_more_visits
ASC1_get_two_or_more_visits(s) ==
    ASC1_number_of_visits_filter(ASC1_create_patient_measurement_year_id(s.encounters))

\* __get_preventive_visits: pd.concat(populace, preventive_visits) is a TypeError
\* (concat takes one iterable of frames); an empty result returns early
ASC1_get_preventive_visits(s, rows) ==
    IF s.preventive = <<>>
    THEN [err |-> NoError, rows |-> rows]
    ELSE [err |-> "TypeError", rows |-> rows]

\* _get_populace
ASC1_get_populace(s) == ASC1_get_preventive_visits(s, ASC1_get_two_or_more_visits(s))

\* __remove_age_exclusions
ASC1_remove_age_exclusions(rows) ==
    LET Adult(r) == r.Age >= 18 IN Filter(rows, Adult)

\* the patient-years of the very year of a diagnosis, by the dementia key
ASC1_compare_dementia_key_to_populace(s, rows) ==
    {r.patient_measurement_year_id : r \in
        {r \in Rows(rows) : \E i \in 1..Len(s.dementia) :
            /\ s.dementia[i].exclusion_year # NaT
            /\ r.patient_measurement_year_id
                    = PmyId(s.dementia[i].PatientId, s.dementia[i].exclusion_year)}}

\* __compare_dementia_year_to_populace
ASC1_compare_dementia_year_to_populace(s, rows) ==
    {r.patient_measurement_year_id : r \in
        {r \in Rows(rows) : \E i \in 1..Len(s.dementia) :
            /\ s.dementia[i].PatientId = r.PatientId
            /\ s.dementia[i].exclusion_year # NaT
            /\ r.measurement_year >= s.dementia[i].exclusion_year}}

\* __remove_dementia_exclusions
ASC1_remove_dementia_exclusions(s, rows) ==
    LET exclusion_ids == ASC1_compare_dementia_year_to_populace(s, rows)
        Kept(r) == r.patient_measurement_year_id \notin exclusion_ids
    IN  Filter(rows, Kept)

\* _remove_exclusions
ASC1_remove_exclusions(s, rows) ==
    ASC1_remove_dementia_exclusions(s, ASC1_remove_age_exclusions(rows))

ASC1_KeyOf(r) == r.patient_measurement_year_id

ASC1_KeyDateLess(a, b) ==
    \/ StrLess(a.patient_measurement_year_id, b.patient_measurement_year_id)
    \/ /\ a.patient_measurement_year_id = b.patient_measurement_year_id
       /\ a.encounter_date < b.encounter_date

ASC1_WithRange(r) ==
    r @@ [earliest_screening_date |-> AddMonths(r.encounter_date, -12),
          latest_screening_date   |-> r.encounter_date]

\* _apply_time_constraint
ASC1_apply_time_constraint(rows) ==
    Map(DropDupLast(SortBy(rows, ASC1_KeyDateLess), ASC1_KeyOf), ASC1_WithRange)

\* __create_screening_patient_measurement_year_id: dt.year is int32 ('2024') when
\* no screening_date is null and float64 ('2024.0', 'nan') when one is; then [:-2]
ASC1_create_screening_patient_measurement_year_id(scr) ==
    LET anyNull == \E i \in 1..Len(scr) : scr[i].screening_date = NaT
        YearStr(d) == IF ~anyNull THEN IntStr(YearOf(d))
                      ELSE IF d = NaT THEN NanStr ELSE FloatStr(YearOf(d))
        WithKey(r) == r @@ [patient_measurement_year_id |->
                        DropLast(IntStr(r.PatientId) \o <<"-">> \o YearStr(r.screening_date), 2)]
    IN  Map(scr, WithKey)

\* populace.merge(screenings, how='left') on PatientId, patient_measurement_year_id
ASC1_merge_screenings(rows, scr) ==
    LET Matches(r) == {i \in 1..Len(scr) :
                          /\ scr[i].PatientId = r.PatientId
                          /\ scr[i].patient_measurement_year_id = r.patient_measurement_year_id}
        WithScr(r, d) == r @@ [screening_date |-> d]
        Joined(r) == IF Matches(r) = {} THEN <<WithScr(r, NaT)>>
                     ELSE LET m == PickFrom(scr, Matches(r), 1)
                          IN  [i \in 1..Len(m) |-> WithScr(r, m[i].screening_date)]
    IN  FlatMap(rows, Joined, 1)

\* __check_screening_date, row by row; a null screening_date compares False
ASC1_InRange(r) ==
    /\ r.screening_date # NaT
    /\ r.earliest_screening_date <= r.screening_date
    /\ r.latest_screening_date >= r.screening_date

ASC1_WithNumerator(r) == r @@ [numerator |-> ASC1_InRange(r)]

ASC1_check_screening_date(s, rows) ==
    IF s.strictDates /\ \E r \in Rows(rows) : r.screening_date # NaT
    THEN [err |-> "TypeError", rows |-> rows]
    ELSE [err |-> NoError, rows |-> Map(rows, ASC1_WithNumerator)]

\* _find_performance_met; an empty or all-null screening_date column is not
\* datetime64 and has no .dt accessor
ASC1_find_performance_met(s, rows) ==
    IF \A i \in 1..Len(s.screenings) : s.screenings[i].screening_date = NaT
    THEN [err |-> "AttributeError", rows |-> rows]
    ELSE ASC1_check_screening_date(s,
            ASC1_merge_screenings(rows,
                ASC1_create_screening_patient_measurement_year_id(s.screenings)))

\* datetime.now(), the fill of a null DisenrollmentDate: after every modelled date
Now == DaysFromCivil(2026, 11, 5)

\* __initialize_stratify
ASC1_initialize_stratify(rows) ==
    LET Cols(r) == [patient_measurement_year_id |-> r.patient_measurement_year_id,
                    PatientId |-> r.PatientId, measurement_year |-> r.measurement_year,
                    EncounterID |-> r.EncounterID, encounter_date |-> r.encounter_date]
        Less(a, b) == \/ StrLess(a.patient_measurement_year_id, b.patient_measurement_year_id)
                      \/ /\ a.patient_measurement_year_id = b.patient_measurement_year_id
                         /\ a.EncounterID < b.EncounterID
    IN  DropDupFirst(SortBy(Map(rows, Cols), Less), ASC1_KeyOf)

\* stratify.merge(patient_data, how='left') on PatientId
MergePatientDataLeft(strat, pd) ==
    LET Matches(r) == {i \in 1..Len(pd) : pd[i].PatientId = r.PatientId}
        With(r, e, c) == r @@ [Ethnicity |-> e, Race |-> c]
        Joined(r) == IF Matches(r) = {} THEN <<With(r, "NULL", "NULL")>>
                     ELSE LET m == PickFrom(pd, Matches(r), 1)
                          IN  [i \in 1..Len(m) |-> With(r, m[i].Ethnicity, m[i].Race)]
    IN  FlatMap(strat, Joined, 1)

\* __merge_mediciad_with_stratify: medicaid_data.merge(stratify[[PatientId, encounter_date]])
ASC1_merge_mediciad_with_stratify(payers, strat) ==
    LET Joined(p) ==
            LET m == PickFrom(strat, {i \in 1..Len(strat) : strat[i].PatientId = p.PatientId}, 1)
            IN  [i \in 1..Len(m) |-> p @@ [encounter_date |-> m[i].encounter_date]]
    IN  FlatMap(payers, Joined, 1)

\* __filter_insurance_dates
ASC1_filter_insurance_dates(rows) ==
    LET End(r) == IF r.End = NaT THEN Now ELSE r.End
        Valid(r) == r.Start # NaT /\ r.Start <= r.encounter_date /\ End(r) >= r.encounter_date
    IN  Filter(rows, Valid)

\* __recreate_patient_measurement_year_id: (str(PatientId) + '-' + str(encounter_date))[:11]
ASC1_recreate_patient_measurement_year_id(r) ==
    Prefix(IntStr(r.PatientId) \o <<"-">> \o DateStr(r.encounter_date), 11)

\* __find_plans_with_medicaid, __replace_medicaid_values: {True: 1, False: 2}
MedicaidCode(plan) == IF plan = "medicaid" THEN 1 ELSE 2

RECURSIVE SumCodes(_, _)
SumCodes(rows, i) ==
    IF i > Len(rows) THEN 0 ELSE rows[i].Medicaid + SumCodes(rows, i + 1)

\* __find_patients_with_only_medicaids: merge with stratify on the key (one copy of
\* a plan row per stratify row of that key), then groupby(key)['Medicaid'].sum() == 1
ASC1_find_patients_with_only_medicaids(rows, strat) ==
    LET Joined(r) ==
            LET m == PickFrom(strat, {i \in 1..Len(strat) :
                        strat[i].patient_measurement_year_id = r.patient_measurement_year_id}, 1)
            IN  [i \in 1..Len(m) |-> r]
        merged == FlatMap(rows, Joined, 1)
        keys == {r.patient_measurement_year_id : r \in Rows(merged)}
        SameKey(k) == LET T(r) == r.patient_measurement_year_id = k IN Filter(merged, T)
    IN  [k \in keys |-> SumCodes(SameKey(k), 1) = 1]

\* __determine_medicaid_stratify
ASC1_determine_medicaid_stratify(rows, strat) ==
    LET Coded(r) == [patient_measurement_year_id |-> r.patient_measurement_year_id,
                     Medicaid |-> MedicaidCode(r.Plan)]
    IN  ASC1_find_patients_with_only_medicaids(Map(rows, Coded), strat)

\* __get_encounter_data: the last merge is an inner join on the key
ASC1_get_encounter_data(s, strat) ==
    LET Mine(p) == \E r \in Rows(strat) : r.PatientId = p.PatientId
        medicaid_data == ASC1_filter_insurance_dates(
                            ASC1_merge_mediciad_with_stratify(Filter(s.payers, Mine), strat))
        Keyed(r) == r @@ [patient_measurement_year_id |-> ASC1_recreate_patient_measurement_year_id(r)]
        results == ASC1_determine_medicaid_stratify(Map(medicaid_data, Keyed), strat)
        Has(r) == r.patient_measurement_year_id \in DOMAIN results
        With(r) == r @@ [Medicaid |-> IF results[r.patient_measurement_year_id] THEN "True" ELSE "False"]
    IN  Map(Filter(strat, Has), With)

\* __fill_blank_stratify: fillna('Unknown')
FillBlank(v) == IF v = "NULL" THEN "Unknown" ELSE v

ASC1_fill_blank_stratify(strat) ==
    LET F(r) == [Ethnicity |-> FillBlank(r.Ethnicity), Race |-> FillBlank(r.Race)] @@ r
    IN  Map(strat, F)

\* stratify_data; with no cohort row the IN () list of the query is empty, which
\* the database rejects
ASC1_stratify_data(s, rows) ==
    LET strat0 == ASC1_initialize_stratify(rows)
        Mine(p) == \E r \in Rows(strat0) : r.PatientId = p.PatientId
        strat1 == MergePatientDataLeft(strat0, Filter(s.patient_data, Mine))
    IN  IF strat0 = <<>>
        THEN [err |-> "ProgrammingError", rows |-> <<>>]
        ELSE [err |-> NoError,
              rows |-> ASC1_fill_blank_stratify(ASC1_get_encounter_data(s, strat1))]

\* __trim_unnecessary_populace_data
ASC1_trim_unnecessary_populace_data(rows) ==
    LET Cols(r) == [patient_measurement_year_id |-> r.patient_measurement_year_id,
                    PatientId |-> r.PatientId, EncounterID |-> r.EncounterID,
                    screening_date |-> r.screening_date, numerator |-> r.numerator]
    IN  DropDupFirst(Map(rows, Cols), ASC1_KeyOf)

\* __trim_unnecessary_stratify_data
ASC1_trim_unnecessary_stratify_data(strat) ==
    LET Cols(r) == [patient_measurement_year_id |-> r.patient_measurement_year_id,
                    measurement_year |-> r.measurement_year, Ethnicity |-> r.Ethnicity,
                    Race |-> r.Race, Medicaid |-> r.Medicaid]
    IN  DropDupFirst(Map(strat, Cols), ASC1_KeyOf)

-----------------------------------------------------------------------------
(* Submeasure.collect_measurement_data (Measurement.py) driving ASC sub-1: *)
(* one action per step; a step that raises ends the sub-measure.           *)

NoOutput == [cohort |-> <<>>, stratify |-> <<>>]

\* a sub-measure driven on its own, outside main.py
Standalone ==
    /\ measure = 0
    /\ sub = "none"
    /\ calls = <<>>
    /\ sub_data = <<>>
    /\ sink = <<>>
    /\ start = <<>>
    /\ faulted = FALSE

\* Submeasure.__init__
InitSubmeasure ==
    /\ pc = "Uninitialized"
    /\ populace = <<>>
    /\ stratify = <<>>
    /\ aux = <<>>
    /\ err = NoError
    /\ out = NoOutput

\* get_denominator: _get_populace, then _remove_exclusions
ASC1_get_denominator ==
    /\ pc = "Uninitialized"
    /\ \E p \in {ASC1_get_populace(src)} :
           IF p.err # NoError
           THEN /\ pc' = "Failed"
                /\ err' = p.err
                /\ populace' = p.rows
           ELSE /\ pc' = "DenominatorComputed"
                /\ err' = err
                /\ populace' = ASC1_remove_exclusions(src, p.rows)
    /\ UNCHANGED <<src, stratify, aux, out>>
    /\ UNCHANGED batchVars

\* get_numerator: _apply_time_constraint, then _find_performance_met
ASC1_get_numerator ==
    /\ pc = "DenominatorComputed"
    /\ \E p \in {ASC1_find_performance_met(src, ASC1_apply_time_constraint(populace))} :
           /\ populace' = p.rows
           /\ err' = p.err
           /\ pc' = IF p.err # NoError THEN "Failed" ELSE "NumeratorComputed"
    /\ UNCHANGED <<src, stratify, aux, out>>
    /\ UNCHANGED batchVars

\* stratify_data
ASC1_stratify ==
    /\ pc = "NumeratorComputed"
    /\ \E p \in {ASC1_stratify_data(src, populace)} :
           /\ stratify' = p.rows
           /\ err' = p.err
           /\ pc' = IF p.err # NoError THEN "Failed" ELSE "Stratified"
    /\ UNCHANGED <<src, populace, aux, out>>
    /\ UNCHANGED batchVars

\* return_final_data
ASC1_return_final_data ==
    /\ pc = "Stratified"
    /\ populace' = ASC1_trim_unnecessary_populace_data(populace)
    /\ stratify' = ASC1_trim_unnecessary_stratify_data(stratify)
    /\ out' = [cohort |-> populace', stratify |-> stratify']
    /\ pc' = "Final"
    /\ UNCHANGED <<src, aux, err>>
    /\ UNCHANGED batchVars

NextASC ==
    \/ ASC1_get_denominator
    \/ ASC1_get_numerator
    \/ ASC1_stratify
    \/ ASC1_return_final_data

-----------------------------------------------------------------------------
(* Bounded database snapshots for ASC.                                     *)

MaxEnc == 2
MaxScr == 2
MaxSpans == 2

D(y, m, d) == DaysFromCivil(y, m, d)

ASC_EncDates == {D(2024, 3, 10), D(2024, 9, 10), D(2025, 3, 10)}
ASC_ScrDates == {D(2023, 9, 10), D(2024, 9, 10), D(2024, 11, 20), NaT}
ASC_DobYears == {2006, 2007}

\* rows of the encounter query for one patient, ORDER BY PatientId, measurement_year
ASC_EncounterRows(pid, dobYear, dates) ==
    [i \in 1..Len(dates) |->
        [PatientId |-> pid, Age |-> YearOf(dates[i]) - dobYear, EncounterID |-> 100 + i,
         encounter_date |-> dates[i], measurement_year |-> YearOf(dates[i])]]

ASC_EncounterSeqs(n) ==
    {ds \in SeqsOf(ASC_EncDates, 1, n) :
        \A i \in 1..(Len(ds) - 1) : YearOf(ds[i]) <= YearOf(ds[i + 1])}

ASC_ScreeningSeqs(pid, n) ==
    {[i \in 1..Len(ds) |-> [PatientId |-> pid, screening_date |-> ds[i]]] :
        ds \in SeqsOf(ASC_ScrDates, 0, n)}

ASC_Spans(pid) ==
    {[PatientId |-> pid, Start |-> D(2024, 1, 1), End |-> NaT, Plan |-> "medicaid"],
     [PatientId |-> pid, Start |-> D(2024, 1, 1), End |-> NaT, Plan |-> "other"],
     [PatientId |-> pid, Start |-> D(2023, 1, 1), End |-> D(2023, 12, 31), Plan |-> "medicaid"]}

ASC_PatientData(pid, races) ==
    [i \in 1..Len(races) |-> [PatientId |-> pid, Ethnicity |-> "NULL", Race |-> races[i]]]

\* snapshots that vary the encounters and the screenings of one patient
ASC_Sources ==
    {[encounters   |-> ASC_EncounterRows(123456, dob, ds),
      preventive   |-> IF prev THEN SubSeq(ASC_EncounterRows(123456, dob, ds), 1, 1) ELSE <<>>,
      dementia     |-> dem,
      screenings   |-> scr,
      patient_data |-> ASC_PatientData(123456, <<"White">>),
      payers       |-> <<CHOOSE sp \in ASC_Spans(123456) : sp.Plan = "medicaid" /\ sp.End = NaT>>,
      strictDates  |-> strict] :
        ds \in ASC_EncounterSeqs(MaxEnc), dob \in ASC_DobYears, prev \in BOOLEAN,
        dem \in {<<>>} \cup {<<[PatientId |-> 123456, exclusion_year |-> y]>> : y \in {2024, 2025}},
        scr \in ASC_ScreeningSeqs(123456, MaxScr), strict \in BOOLEAN}

InitASC == src \in ASC_Sources /\ InitSubmeasure /\ Standalone

SpecASC == InitASC /\ [][NextASC]_vars

\* snapshots that vary the patient id, the race rows and the insurance spans
ASC_StratSourcesOf(pid) ==
    {[encounters   |-> ASC_EncounterRows(pid, 2000, ds),
      preventive   |-> <<>>,
      dementia     |-> <<>>,
      screenings   |-> <<[PatientId |-> pid, screening_date |-> NaT],
                         [PatientId |-> pid, screening_date |-> D(2024, 9, 10)]>>,
      patient_data |-> ASC_PatientData(pid, races),
      payers       |-> spans,
      strictDates  |-> FALSE] :
        ds \in ASC_EncounterSeqs(2),
        races \in {<<>>, <<"White">>, <<"White", "Asian">>},
        spans \in SeqsOf(ASC_Spans(pid), 0, MaxSpans)}

ASC_StratSources == UNION {ASC_StratSourcesOf(pid) : pid \in {12345, 123456}}

InitASCStrat == src \in ASC_StratSources /\ InitSubmeasure /\ Standalone

SpecASCStrat == InitASCStrat /\ [][NextASC]_vars

-----------------------------------------------------------------------------
(* Properties of ASC sub-measure 1.                                        *)

KeysOf(rows) == {r.patient_measurement_year_id : r \in Rows(rows)}

\* the encounters of the snapshot in measurement year y
ASC_EncountersIn(y) == {r \in Rows(src.encounters) : r.measurement_year = y}
ASC_PreventiveIn(y) == {r \in Rows(src.preventive) : r.measurement_year = y}
ASC_Years == {r.measurement_year : r \in Rows(src.encounters)}

\* the date of the most recent encounter of year y
ASC_LastDate(y) ==
    CHOOSE d \in {r.encounter_date : r \in ASC_EncountersIn(y)} :
        \A r \in ASC_EncountersIn(y) : r.encounter_date <= d

\* some screening of the snapshot lies in [d - 12 months, d]
ASC_ScreenedWithin(d) ==
    \E r \in Rows(src.screenings) :
        /\ r.screening_date # NaT
        /\ AddMonths(d, -12) <= r.screening_date
        /\ r.screening_date <= d

ASC_Finished == pc \in {"Final", "Failed"}

\* C3: after return_final_data the cohort table and the stratify table hold the
\* same set of patient_measurement_year_id values
C3_CohortKeysEqualStratifyKeys ==
    pc = "Final" => KeysOf(out.cohort) = KeysOf(out.stratify)

\* the encounter of the snapshot a cohort row of ASC sub-measure 1 stands for
ASC_EncounterOfRow(r) == CHOOSE e \in Rows(src.encounters) : e.EncounterID = r.EncounterID

\* the insurance spans of patient pid active on day d: Start <= d <= End, a null
\* End counting as active
ActiveSpans(pid, d) ==
    {i \in 1..Len(src.payers) :
        /\ src.payers[i].PatientId = pid
        /\ src.payers[i].Start <= d
        /\ src.payers[i].End = NaT \/ src.payers[i].End >= d}

\* exactly one span of the patient is active on day d, and its plan is Medicaid
OnlyMedicaidActive(pid, d) ==
    /\ Cardinality(ActiveSpans(pid, d)) = 1
    /\ \A i \in ActiveSpans(pid, d) : src.payers[i].Plan = "medicaid"

\* C14: the Medicaid flag of a cohort record is true iff exactly one insurance
\* span of the patient is active on the record's date and that span is Medicaid
C14_MedicaidIffOnlyMedicaidActive ==
    pc = "Final" =>
        \A r \in Rows(out.cohort) : \A t \in Rows(out.stratify) :
            t.patient_measurement_year_id = r.patient_measurement_year_id
                => (t.Medicaid = "True"
                        <=> OnlyMedicaidActive(r.PatientId, ASC_EncounterOfRow(r).encounter_date))

\* C15: a cohort record whose patient has no insurance span active on the
\* record's date still has a row in the returned stratify table, with Medicaid =
\* "Unknown", and no column of the returned stratify table holds a null
C15_NoActiveSpanIsUnknown ==
    pc = "Final" =>
        /\ \A r \in Rows(out.cohort) :
               ActiveSpans(r.PatientId, ASC_EncounterOfRow(r).encounter_date) = {}
                    => \E t \in Rows(out.stratify) :
                           /\ t.patient_measurement_year_id = r.patient_measurement_year_id
                           /\ t.Medicaid = "Unknown"
        /\ \A t \in Rows(out.stratify) :
               /\ t.measurement_year # NaT
               /\ "NULL" \notin {t.Ethnicity, t.Race, t.Medicaid}

\* C5: an adult with two encounters in the year and a screening within
\* [last encounter - 12 months, last encounter] ends as exactly one cohort row
\* with numerator = true, and a patient with one encounter and no preventive
\* visit in the year is absent from the cohort
C5_ASC1EndToEnd ==
    (ASC_Finished /\ src.dementia = <<>> /\ src.preventive = <<>>) =>
        \A y \in ASC_Years :
            LET key == PmyId(123456, y)
                mine == {i \in 1..Len(out.cohort) :
                            out.cohort[i].patient_measurement_year_id = key}
            IN  /\ (/\ Cardinality(ASC_EncountersIn(y)) = 2
                    /\ \A r \in ASC_EncountersIn(y) : r.Age = 18
                    /\ ASC_ScreenedWithin(ASC_LastDate(y)))
                      => /\ Cardinality(mine) = 1
                         /\ \A i \in mine : out.cohort[i].numerator
                /\ Cardinality(ASC_EncountersIn(y)) = 1 => mine = {}

\* C6: a cohort row with numerator = true has its screening_date in
\* [d - 12 months, d], d the date of the most recent encounter of the year, and a
\* patient screened exactly on d or exactly on d - 12 months has numerator = true
C6_ScreeningWindowInclusive ==
    pc = "Final" =>
        \A i \in 1..Len(out.cohort) :
            LET y == CHOOSE yy \in ASC_Years : PmyId(123456, yy) = out.cohort[i].patient_measurement_year_id
                d == ASC_LastDate(y)
                OnEnd == \E r \in Rows(src.screenings) :
                            r.screening_date \in {d, AddMonths(d, -12)}
            IN  /\ out.cohort[i].numerator =>
                    /\ out.cohort[i].screening_date # NaT
                    /\ AddMonths(d, -12) <= out.cohort[i].screening_date
                    /\ out.cohort[i].screening_date <= d
                /\ OnEnd => out.cohort[i].numerator

\* C7: _get_populace completes, and a patient-year is in the population iff it has
\* two or more encounters or one or more preventive visits
C7_PopulaceTwoVisitsOrPreventive ==
    pc # "Uninitialized" =>
        LET p == ASC1_get_populace(src)
        IN  /\ p.err = NoError
            /\ \A y \in ASC_Years \cup {r.measurement_year : r \in Rows(src.preventive)} :
                    PmyId(123456, y) \in KeysOf(p.rows)
                        <=> (Cardinality(ASC_EncountersIn(y)) >= 2 \/ ASC_PreventiveIn(y) # {})

-----------------------------------------------------------------------------
(* DEP-REM-6 (DEP_REM.py, class _Sub_1).                                   *)
(* VisitDateTime is a datetime: a day number times TicksPerDay plus the    *)
(* time of day.  src.encounters: rows PatientId, DOB, EncounterID, Date,   *)
(* Score in the order the UNION query returned them; src.exclusions:       *)
(* PatientId, Date (a day); src.unstableSort: whether the single-column    *)
(* quicksort of sort_values('Date') keeps rows of equal Date in their      *)
(* order or swaps them.                                                     *)

TicksPerDay == 2

DateOf(dt) == dt \div TicksPerDay
TimeOf(dt) == dt % TicksPerDay

\* Timestamp + relativedelta(months=k)
DtAddMonths(dt, k) == AddMonths(DateOf(dt), k) * TicksPerDay + TimeOf(dt)

\* Timestamp + relativedelta(days=n)
DtAddDays(dt, n) == dt + n * TicksPerDay

Reverse(s) == [i \in 1..Len(s) |-> s[Len(s) + 1 - i]]

\* the value 'No Group' of a visit that follows no index visit
NoGroup == <<"N", "o", " ", "G", "r", "o", "u", "p">>

\* __initilize_populace: read_sql(...).sort_values(['PatientId','Date'])
DEPREM_initilize_populace(s) ==
    LET Less(a, b) == \/ a.PatientId < b.PatientId
                      \/ a.PatientId = b.PatientId /\ a.Date < b.Date
    IN  SortBy(s.encounters, Less)

\* __get_index_visits: the first visit with Score > 9 per patient and year
DEPREM_get_index_visits(s, rows) ==
    LET Elevated(r) == r.Score > 9
        Cols(r) == [PatientId |-> r.PatientId,
                    patient_measurement_year_id |-> PmyId(r.PatientId, YearOf(DateOf(r.Date))),
                    EncounterID |-> r.EncounterID,
                    measurement_year |-> YearOf(DateOf(r.Date)),
                    Date |-> r.Date]
        index_visits == Map(Filter(rows, Elevated), Cols)
        Less(a, b) == a.Date < b.Date
        sorted == SortBy(IF s.unstableSort THEN Reverse(index_visits) ELSE index_visits, Less)
    IN  DropDupFirst(sorted, ASC1_KeyOf)

\* the variant of __create_patient_measurement_year_id that takes iloc[0], the
\* patient's first index visit on or before the visit
DEPREM_attribute_to_first_index(visit, index_visits) ==
    LET Mine(r) == r.PatientId = visit.PatientId
        ind_group == Filter(index_visits, Mine)
        Before(r) == DateOf(visit.Date) >= DateOf(r.Date)
        masked == Filter(ind_group, Before)
    IN  IF ind_group = <<>> \/ masked = <<>>
        THEN [patient_measurement_year_id |-> NoGroup, index_encounter_id |-> NaT]
        ELSE [patient_measurement_year_id |->
                    PmyId(visit.PatientId, YearOf(DateOf(masked[1].Date))),
              index_encounter_id |-> masked[1].EncounterID]

\* __create_patient_measurement_year_id: the key and the encounter id of the last
\* index visit of the patient whose date is on or before the visit's date
DEPREM_create_patient_measurement_year_id(visit, index_visits) ==
    LET Mine(r) == r.PatientId = visit.PatientId
        ind_group == Filter(index_visits, Mine)
        Before(r) == DateOf(visit.Date) >= DateOf(r.Date)
        masked == Filter(ind_group, Before)
        index_visit == masked[Len(masked)]
    IN  IF ind_group = <<>> \/ masked = <<>>
        THEN [patient_measurement_year_id |-> NoGroup, index_encounter_id |-> NaT]
        ELSE [patient_measurement_year_id |->
                    PmyId(visit.PatientId, YearOf(DateOf(index_visit.Date))),
              index_encounter_id |-> index_visit.EncounterID]

\* __set_index_groups; when no row gets a group (or there is no row) apply returns
\* a frame that does not have two columns and the assignment raises ValueError
DEPREM_set_index_groups(rows, index_visits) ==
    LET WithGroup(r) == r @@ DEPREM_create_patient_measurement_year_id(r, index_visits)
        grouped == Map(rows, WithGroup)
        InGroup(r) == r.patient_measurement_year_id # NoGroup
    IN  IF \A i \in 1..Len(grouped) : ~InGroup(grouped[i])
        THEN [err |-> "ValueError", rows |-> rows]
        ELSE [err |-> NoError, rows |-> Filter(grouped, InGroup)]

\* _get_populace
DEPREM_get_populace(s) ==
    LET rows == DEPREM_initilize_populace(s)
        index_visits == DEPREM_get_index_visits(s, rows)
    IN  DEPREM_set_index_groups(rows, index_visits) @@ [index_visits |-> index_visits]

\* __determine_exclusion_date_range: the day of index + 6 months + 60 days
DEPREM_end_exclusion_range(visit) == DateOf(DtAddDays(DtAddMonths(visit.Date, 6), 60))

\* __compare_exclusions_with_range: the index encounters of the patient whose
\* range ends on or after the exclusion's day
DEPREM_compare_exclusions_with_range(s, index_visits) ==
    {v.EncounterID : v \in {v \in Rows(index_visits) :
        \E e \in Rows(s.exclusions) :
            /\ e.PatientId = v.PatientId
            /\ e.Date <= DEPREM_end_exclusion_range(v)}}

\* _remove_exclusions, __filter_out_exclusions
DEPREM_remove_exclusions(s, rows, index_visits) ==
    LET exclusions == DEPREM_compare_exclusions_with_range(s, index_visits)
        Kept(r) == r.index_encounter_id \notin exclusions
    IN  Filter(rows, Kept)

Identity(r) == r

\* the keys of the groups of groupby('patient_measurement_year_id'), sorted
DEPREM_GroupKeys(rows) ==
    LET Less(a, b) == StrLess(a, b)
    IN  SortBy(DropDupFirst(Map(rows, ASC1_KeyOf), Identity), Less)

\* the body of the loop of _apply_time_constraint for one group: the row at
\* iloc[0], then the rows of the group inside iloc[0].Date + 6 months +/- 60 days
DEPREM_time_constraint_of_group(patient_data) ==
    LET index_visit == patient_data[1]
        enc_date == index_visit.Date
        min_range == DtAddDays(DtAddMonths(enc_date, 6), -60)
        max_range == DtAddDays(DtAddMonths(enc_date, 6), 60)
        InRange(r) == r.Date >= min_range /\ r.Date <= max_range
    IN  <<index_visit>> \o Filter(patient_data, InRange)

\* _apply_time_constraint
DEPREM_apply_time_constraint(rows) ==
    LET Group(k) == LET Mine(r) == r.patient_measurement_year_id = k
                    IN  DEPREM_time_constraint_of_group(Filter(rows, Mine))
    IN  FlatMap(DEPREM_GroupKeys(rows), Group, 1)

\* __check_numerator_condition: the groups with some Score < 5
DEPREM_check_numerator_condition(rows) ==
    {r.patient_measurement_year_id : r \in {r \in Rows(rows) : r.Score < 5}}

\* __set_numerator
DEPREM_set_numerator(rows, numerator_ids) ==
    LET Flag(r) == r @@ [numerator |-> r.patient_measurement_year_id \in numerator_ids]
    IN  Map(rows, Flag)

\* _find_performance_met; the frame built from no group has no columns, and
\* groupby('patient_measurement_year_id') raises KeyError
DEPREM_find_performance_met(rows) ==
    IF rows = <<>>
    THEN [err |-> "KeyError", rows |-> rows]
    ELSE [err |-> NoError,
          rows |-> DEPREM_set_numerator(rows, DEPREM_check_numerator_condition(rows))]

\* __initialize_stratify
DEPREM_initialize_stratify(rows) ==
    LET Cols(r) == [patient_measurement_year_id |-> r.patient_measurement_year_id,
                    PatientId |-> r.PatientId, DOB |-> r.DOB,
                    index_encounter_id |-> r.index_encounter_id, Date |-> r.Date]
        Less(a, b) == \/ a.index_encounter_id < b.index_encounter_id
                      \/ a.index_encounter_id = b.index_encounter_id /\ a.Date < b.Date
        ByIndex(r) == r.index_encounter_id
    IN  DropDupFirst(SortBy(Map(rows, Cols), Less), ByIndex)

\* (Date - DOB).days // 365.25
DEPREM_AgeAt(dt, dob) == ((DateOf(dt) - dob) * 4) \div 1461

\* __calculate_age: rows under 12 leave the stratify table only
DEPREM_calculate_age(strat) ==
    LET WithAge(r) == r @@ [Age |-> DEPREM_AgeAt(r.Date, r.DOB)]
        OldEnough(r) == r.Age >= 12
        Bucket(r) == [Age |-> IF r.Age >= 18 THEN "18+" ELSE "12-18"] @@ r
    IN  Map(Filter(Map(strat, WithAge), OldEnough), Bucket)

\* the IN list of the stratification queries is str(tuple(ids)): '()' for no id
\* and '(123456,)' for one, neither of which the database accepts
DEPREM_InListRejected(strat) == Len(strat) <= 1

\* __get_patient_data: merge (inner) with drop_duplicates('PatientId', keep='last')
DEPREM_get_patient_data(s, strat) ==
    LET Mine(p) == \E r \in Rows(strat) : r.PatientId = p.PatientId
        ByPatient(p) == p.PatientId
        patient_data == DropDupLast(Filter(s.patient_data, Mine), ByPatient)
        Joined(r) ==
            LET m == PickFrom(patient_data,
                        {i \in 1..Len(patient_data) : patient_data[i].PatientId = r.PatientId}, 1)
            IN  [i \in 1..Len(m) |-> r @@ [Ethnicity |-> m[i].Ethnicity, Race |-> m[i].Race]]
    IN  FlatMap(strat, Joined, 1)

\* __filter_insurance_dates
DEPREM_filter_insurance_dates(rows) ==
    LET End(r) == IF r.End = NaT THEN Now * TicksPerDay ELSE r.End * TicksPerDay
        Valid(r) == r.Start # NaT /\ r.Start * TicksPerDay <= r.Date /\ End(r) >= r.Date
    IN  Filter(rows, Valid)

\* __get_encounter_data: spans joined to the stratify rows of the patient, those
\* active at Date kept, Medicaid summed per index_encounter_id, inner merge
DEPREM_get_encounter_data(s, strat) ==
    LET Mine(p) == \E r \in Rows(strat) : r.PatientId = p.PatientId
        Joined(p) ==
            LET m == PickFrom(strat, {i \in 1..Len(strat) : strat[i].PatientId = p.PatientId}, 1)
            IN  [i \in 1..Len(m) |-> p @@ [Date |-> m[i].Date]]
        medicaid_data == DEPREM_filter_insurance_dates(FlatMap(Filter(s.payers, Mine), Joined, 1))
        Coded(r) == r @@ [Medicaid |-> MedicaidCode(r.Plan)]
        WithIndex(r) ==
            LET m == PickFrom(strat, {i \in 1..Len(strat) :
                        strat[i].PatientId = r.PatientId /\ strat[i].Date = r.Date}, 1)
            IN  [i \in 1..Len(m) |-> r @@ [index_encounter_id |-> m[i].index_encounter_id]]
        merged == FlatMap(Map(medicaid_data, Coded), WithIndex, 1)
        ids == {r.index_encounter_id : r \in Rows(merged)}
        OfIndex(k) == LET T(r) == r.index_encounter_id = k IN Filter(merged, T)
        results == [k \in ids |-> SumCodes(OfIndex(k), 1) = 1]
        Has(r) == r.index_encounter_id \in ids
        With(r) == r @@ [Medicaid |-> IF results[r.index_encounter_id] THEN "True" ELSE "False"]
    IN  Map(Filter(strat, Has), With)

\* stratify_data
DEPREM_stratify_data(s, rows) ==
    LET strat0 == DEPREM_calculate_age(DEPREM_initialize_stratify(rows))
        strat1 == DEPREM_get_patient_data(s, strat0)
    IN  IF DEPREM_InListRejected(strat0) \/ DEPREM_InListRejected(strat1)
        THEN [err |-> "ProgrammingError", rows |-> strat0]
        ELSE [err |-> NoError,
              rows |-> ASC1_fill_blank_stratify(DEPREM_get_encounter_data(s, strat1))]

\* __trim_unnecessary_populace_data: drop_duplicates() over the four columns
DEPREM_trim_unnecessary_populace_data(rows) ==
    LET Cols(r) == [PatientId |-> r.PatientId,
                    patient_measurement_year_id |-> r.patient_measurement_year_id,
                    index_encounter_id |-> r.index_encounter_id, numerator |-> r.numerator]
    IN  DropDupFirst(Map(rows, Cols), Identity)

\* __trim_unnecessary_stratify_data
DEPREM_trim_unnecessary_stratify_data(strat) ==
    LET Cols(r) == [patient_measurement_year_id |-> r.patient_measurement_year_id,
                    Age |-> r.Age, Ethnicity |-> r.Ethnicity, Race |-> r.Race,
                    Medicaid |-> r.Medicaid]
    IN  Map(strat, Cols)

-----------------------------------------------------------------------------
(* Submeasure.collect_measurement_data driving DEP-REM; aux holds           *)
(* __index_visits__.                                                        *)

\* get_denominator: _get_populace, then _remove_exclusions
DEPREM_get_denominator ==
    /\ pc = "Uninitialized"
    /\ \E p \in {DEPREM_get_populace(src)} :
           /\ aux' = p.index_visits
           /\ err' = p.err
           /\ IF p.err # NoError
              THEN pc' = "Failed" /\ populace' = p.rows
              ELSE /\ pc' = "DenominatorComputed"
                   /\ populace' = DEPREM_remove_exclusions(src, p.rows, p.index_visits)
    /\ UNCHANGED <<src, stratify, out>>
    /\ UNCHANGED batchVars

\* get_numerator: _apply_time_constraint, then _find_performance_met
DEPREM_get_numerator ==
    /\ pc = "DenominatorComputed"
    /\ \E p \in {DEPREM_find_performance_met(DEPREM_apply_time_constraint(populace))} :
           /\ populace' = p.rows
           /\ err' = p.err
           /\ pc' = IF p.err # NoError THEN "Failed" ELSE "NumeratorComputed"
    /\ UNCHANGED <<src, stratify, aux, out>>
    /\ UNCHANGED batchVars

\* stratify_data
DEPREM_stratify ==
    /\ pc = "NumeratorComputed"
    /\ \E p \in {DEPREM_stratify_data(src, populace)} :
           /\ stratify' = p.rows
           /\ err' = p.err
           /\ pc' = IF p.err # NoError THEN "Failed" ELSE "Stratified"
    /\ UNCHANGED <<src, populace, aux, out>>
    /\ UNCHANGED batchVars

\* return_final_data
DEPREM_return_final_data ==
    /\ pc = "Stratified"
    /\ populace' = DEPREM_trim_unnecessary_populace_data(populace)
    /\ stratify' = DEPREM_trim_unnecessary_stratify_data(stratify)
    /\ out' = [cohort |-> populace', stratify |-> stratify']
    /\ pc' = "Final"
    /\ UNCHANGED <<src, aux, err>>
    /\ UNCHANGED batchVars

NextDepRem ==
    \/ DEPREM_get_denominator
    \/ DEPREM_get_numerator
    \/ DEPREM_stratify
    \/ DEPREM_return_final_data

(* Bounded database snapshots for DEP-REM: patient 123456 with up to       *)
(* MaxDepEnc scored encounters, and a second patient with no encounter, one *)
(* low score or one elevated score, as an adult or as a child of 10.        *)

MaxDepEnc == 3

DT(y, m, d, t) == DaysFromCivil(y, m, d) * TicksPerDay + t

\* 2024-01-10 (morning, afternoon), 2024-05-11 = 2024-01-10 + 6 months - 60 days,
\* 2024-09-08 = 2024-01-10 + 6 months + 60 days, and a visit of the next year
DEPREM_Times == {DT(2024, 1, 10, 0), DT(2024, 1, 10, 1), DT(2024, 5, 11, 0),
                 DT(2024, 9, 8, 1), DT(2025, 2, 1, 0)}
DEPREM_Scores == {3, 12}

DEPREM_EncounterSeqs ==
    {es \in SeqsOf(DEPREM_Times \X DEPREM_Scores, 1, MaxDepEnc) :
        \A i \in 1..(Len(es) - 1) : es[i][1] <= es[i + 1][1]}

DEPREM_EncounterRows(pid, first, es) ==
    [i \in 1..Len(es) |->
        [PatientId |-> pid, DOB |-> D(2000, 1, 1), EncounterID |-> first + i,
         Date |-> es[i][1], Score |-> es[i][2]]]

\* the elevated encounter of a second patient who is 10 years old that day
DEPREM_ChildRows ==
    <<[PatientId |-> 234567, DOB |-> D(2014, 1, 1), EncounterID |-> 201,
       Date |-> DT(2024, 5, 11, 0), Score |-> 12]>>

DEPREM_OtherPatient ==
    {<<>>, DEPREM_EncounterRows(234567, 200, <<<<DT(2024, 5, 11, 0), 3>>>>),
           DEPREM_EncounterRows(234567, 200, <<<<DT(2024, 5, 11, 0), 12>>>>),
           DEPREM_ChildRows}

DEPREM_Sources ==
    {[encounters   |-> DEPREM_EncounterRows(123456, 100, es) \o other,
      exclusions   |-> excl,
      unstableSort |-> unstable,
      patient_data |-> ASC_PatientData(123456, <<"White">>) \o ASC_PatientData(234567, <<"Asian">>),
      payers       |-> <<[PatientId |-> 123456, Start |-> D(2023, 1, 1), End |-> NaT, Plan |-> "medicaid"],
                         [PatientId |-> 234567, Start |-> D(2023, 1, 1), End |-> NaT, Plan |-> "other"]>>] :
        es \in DEPREM_EncounterSeqs, other \in DEPREM_OtherPatient,
        excl \in {<<>>, <<[PatientId |-> 123456, Date |-> D(2025, 6, 1)]>>},
        unstable \in BOOLEAN}

InitDepRem == src \in DEPREM_Sources /\ InitSubmeasure /\ Standalone

SpecDepRem == InitDepRem /\ [][NextDepRem]_vars

-----------------------------------------------------------------------------
(* Properties of DEP-REM.                                                   *)

\* the encounters of patient pid in calendar year y with Score > 9
DEPREM_ElevatedIn(pid, y) ==
    {r \in Rows(src.encounters) :
        r.PatientId = pid /\ r.Score > 9 /\ YearOf(DateOf(r.Date)) = y}

\* v is the earliest encounter of its patient and year with Score > 9
DEPREM_IsIndexEvent(v) ==
    \E r \in DEPREM_ElevatedIn(v.PatientId, v.measurement_year) :
        /\ r.EncounterID = v.EncounterID
        /\ r.Date = v.Date
        /\ \A q \in DEPREM_ElevatedIn(v.PatientId, v.measurement_year) : r.Date <= q.Date

\* the index events of the patient dated on or before the day of encounter e
DEPREM_IndexEventsUpTo(e) ==
    {v \in Rows(aux) : v.PatientId = e.PatientId /\ DateOf(v.Date) <= DateOf(e.Date)}

DEPREM_GroupOf(v) ==
    {e \in Rows(src.encounters) :
        /\ v \in DEPREM_IndexEventsUpTo(e)
        /\ \A w \in DEPREM_IndexEventsUpTo(e) : w.Date <= v.Date}

\* C10: a record has numerator = true iff some encounter of its index group dated
\* within [index_date + 6 months - 60 days, index_date + 6 months + 60 days] has
\* score < 5
C10_NumeratorIffRemissionInWindow ==
    pc = "NumeratorComputed" =>
        \A r \in Rows(populace) :
            LET v == CHOOSE x \in Rows(aux) : x.EncounterID = r.index_encounter_id
                lo == DtAddDays(DtAddMonths(v.Date, 6), -60)
                hi == DtAddDays(DtAddMonths(v.Date, 6), 60)
            IN  r.numerator <=>
                    \E e \in DEPREM_GroupOf(v) : e.Score < 5 /\ lo <= e.Date /\ e.Date <= hi

-----------------------------------------------------------------------------
(* I-SERV sub-measure 1 (I_SERV.py, class _Sub_1).                         *)
(* src.calls: rows PatientID, CallID, StartDate, DOB; src.evals: PatientId, *)
(* VisitDateTime, eval_encounter_id, in the order the query returned them;  *)
(* src.prior_visits: PatientId, prior_year (billable visits of July to      *)
(* December); dates are days.                                               *)

\* datetime.weekday(): Monday is 0 (1970-01-01 was a Thursday)
Weekday(z) == (z + 3) % 7

\* Timestamp + pd.tseries.offsets.BDay(n), n > 0 (BusinessDay._apply)
BDayAdd(z, n) ==
    LET weeks == n \div 5
        r     == n - 5 * weeks
        wday  == Weekday(z)
        days  == IF r = 0 /\ wday > 4 THEN 4 - wday
                 ELSE IF wday > 4 THEN (7 - wday) + (r - 1)
                 ELSE IF wday + r <= 4 THEN r
                 ELSE r + 2
    IN  z + 7 * weeks + days

\* len(pd.date_range(a, b)): the calendar days of [a, b]
CalendarDays(a, b) == Cardinality(a..b)

\* len(pd.bdate_range(a, b)): the business days of [a, b]
BusinessDays(a, b) == Cardinality({d \in a..b : Weekday(d) < 5})

\* __get_next_date: the first row, in the order of the frame, of the patient's
\* evaluations dated on or after the call
ISERV1_get_next_date(call, evals) ==
    LET Valid(e) == e.VisitDateTime >= call
        valid_evals == Filter(evals, Valid)
    IN  IF Len(valid_evals) > 0
        THEN [eval_date |-> valid_evals[1].VisitDateTime,
              eval_encounter_id |-> valid_evals[1].eval_encounter_id]
        ELSE [eval_date |-> NaT, eval_encounter_id |-> NaT]

\* the calls of patients that have an evaluation, each with its next evaluation
ISERV1_has_eval(s) ==
    LET HasEval(c) == \E e \in Rows(s.evals) : e.PatientId = c.PatientID
        Next(c) == LET Mine(e) == e.PatientId = c.PatientID
                   IN  c @@ ISERV1_get_next_date(c.StartDate, Filter(s.evals, Mine))
    IN  Map(Filter(s.calls, HasEval), Next)

\* __match_evals_to_calls; with no call of a patient that has an evaluation, apply
\* returns the four columns of the empty frame and the assignment raises
ISERV1_match_evals_to_calls(s) ==
    LET NoEval(c) == \A e \in Rows(s.evals) : e.PatientId # c.PatientID
        Blank(c) == c @@ [eval_date |-> NaT, eval_encounter_id |-> NaT]
        ByEval(r) == <<r.PatientID, r.eval_encounter_id>>
        has_eval == ISERV1_has_eval(s)
    IN  IF has_eval = <<>>
        THEN [err |-> "ValueError", rows |-> <<>>]
        ELSE [err |-> NoError,
              rows |-> DropDupFirst(has_eval, ByEval) \o Map(Filter(s.calls, NoEval), Blank)]

\* __calculate_measurement_year, __create_patient_measurement_year_id
ISERV1_create_patient_measurement_year_id(rows) ==
    LET WithKey(r) == r @@ [measurement_year |-> YearOf(r.StartDate),
                           patient_measurement_year_id |-> PmyId(r.PatientID, YearOf(r.StartDate))]
    IN  Map(rows, WithKey)

\* _get_populace
ISERV1_get_populace(s) ==
    LET p == ISERV1_match_evals_to_calls(s)
    IN  [err |-> p.err, rows |-> ISERV1_create_patient_measurement_year_id(p.rows)]

\* __prior_visit_exclusions: a billable visit of July to December of year y
\* excludes the patient's key of year y + 1
ISERV1_prior_visit_exclusions(s, rows) ==
    LET exclusion_ids == {PmyId(v.PatientId, v.prior_year + 1) : v \in Rows(s.prior_visits)}
        Kept(r) == r.patient_measurement_year_id \notin exclusion_ids
    IN  Filter(rows, Kept)

\* __december_exclusions
ISERV1_december_exclusions(rows) ==
    LET Kept(r) == MonthOf(r.StartDate) # 12 IN Filter(rows, Kept)

\* __age_exclusions: measurement_year - DOB.year >= 12
ISERV1_age_exclusions(rows) ==
    LET WithAge(r) == r @@ [age |-> r.measurement_year - YearOf(r.DOB)]
        Kept(r) == r.age >= 12
    IN  Filter(Map(rows, WithAge), Kept)

\* _remove_exclusions
ISERV1_remove_exclusions(s, rows) ==
    ISERV1_age_exclusions(ISERV1_december_exclusions(ISERV1_prior_visit_exclusions(s, rows)))

\* _apply_time_constraint, row by row
ISERV1_time_constraint_of_row(r) ==
    [eval_date |-> IF r.eval_date = NaT THEN NaT
                   ELSE IF YearOf(r.eval_date) = r.measurement_year THEN r.eval_date
                   ELSE BDayAdd(r.eval_date, 31)] @@ r

\* _apply_time_constraint; apply on an empty frame returns a frame, which cannot
\* be assigned to the column (ValueError); when no call got an evaluation the
\* column holds None, which has no .year (AttributeError)
ISERV1_apply_time_constraint(s, rows) ==
    IF rows = <<>> THEN [err |-> "ValueError", rows |-> rows]
    ELSE IF \A c \in Rows(ISERV1_has_eval(s)) : c.eval_date = NaT
    THEN [err |-> "AttributeError", rows |-> rows]
    ELSE [err |-> NoError, rows |-> Map(rows, ISERV1_time_constraint_of_row)]

\* the calls with no evaluation staying in the populace, none noted
ISERV1_keep_calls_without_evals(rows) == [exclusions |-> <<>>, rows |-> rows]

\* __handle_calls_without_evals: the calls with no evaluation leave the populace;
\* the result is None (the empty sequence here) when there is none
ISERV1_handle_calls_without_evals(rows) ==
    LET NoEval(r) == r.eval_date = NaT
        Evaluated(r) == r.eval_date # NaT
        Cols(r) == [PatientID |-> r.PatientID, StartDate |-> r.StartDate]
    IN  [exclusions |-> Map(Filter(rows, NoEval), Cols), rows |-> Filter(rows, Evaluated)]

\* __calculate_days_from_call, row by row: len(bdate_range(call, eval)) - 1
ISERV1_days_from_call(r) ==
    r @@ [business_days_from_call_to_eval |-> BusinessDays(r.StartDate, r.eval_date) - 1]

\* _find_performance_met
ISERV1_find_performance_met(rows) ==
    LET h == ISERV1_handle_calls_without_evals(rows)
    IN  IF h.rows = <<>>
        THEN [err |-> "ValueError", rows |-> h.rows, exclusions |-> h.exclusions]
        ELSE [err |-> NoError, rows |-> Map(h.rows, ISERV1_days_from_call),
              exclusions |-> h.exclusions]

\* __initialize_stratify, __get_age_groups
ISERV1_initialize_stratify(rows) ==
    LET Cols(r) == [patient_measurement_year_id |-> r.patient_measurement_year_id,
                    PatientID |-> r.PatientID, StartDate |-> r.StartDate,
                    CallID |-> r.CallID, eval_encounter_id |-> r.eval_encounter_id,
                    age |-> IF r.age >= 18 THEN "18+" ELSE "12-18"]
    IN  Map(rows, Cols)

\* __get_patient_data: stratify.merge(patient_data), an inner join on PatientID
ISERV1_get_patient_data(s, strat) ==
    LET Joined(r) ==
            LET m == PickFrom(s.patient_data,
                        {i \in 1..Len(s.patient_data) : s.patient_data[i].PatientId = r.PatientID}, 1)
            IN  [i \in 1..Len(m) |-> r @@ [Ethnicity |-> m[i].Ethnicity, Race |-> m[i].Race]]
    IN  FlatMap(strat, Joined, 1)

\* __merge_mediciad_with_stratify: medicaid_data.merge(stratify[[PatientID, StartDate]])
ISERV1_merge_mediciad_with_stratify(payers, strat) ==
    LET Joined(p) ==
            LET m == PickFrom(strat, {i \in 1..Len(strat) : strat[i].PatientID = p.PatientId}, 1)
            IN  [i \in 1..Len(m) |-> p @@ [StartDate |-> m[i].StartDate]]
    IN  FlatMap(payers, Joined, 1)

\* __filter_insurance_dates
ISERV1_filter_insurance_dates(rows) ==
    LET End(r) == IF r.End = NaT THEN Now ELSE r.End
        Valid(r) == r.Start # NaT /\ r.Start <= r.StartDate /\ End(r) >= r.StartDate
    IN  Filter(rows, Valid)

\* __find_patients_with_only_medicaids: merge with stratify on PatientID and
\* StartDate, then groupby(eval_encounter_id)['Medicaid'].sum() == 1
ISERV1_find_patients_with_only_medicaids(rows, strat) ==
    LET Joined(r) ==
            LET m == PickFrom(strat, {i \in 1..Len(strat) :
                        /\ strat[i].PatientID = r.PatientId
                        /\ strat[i].StartDate = r.StartDate}, 1)
            IN  [i \in 1..Len(m) |-> [eval_encounter_id |-> m[i].eval_encounter_id,
                                      Medicaid |-> MedicaidCode(r.Plan)]]
        merged == FlatMap(rows, Joined, 1)
        ids == {r.eval_encounter_id : r \in Rows(merged)}
        SameEval(k) == LET T(r) == r.eval_encounter_id = k IN Filter(merged, T)
    IN  [k \in ids |-> SumCodes(SameEval(k), 1) = 1]

\* __get_encounter_data: the last merge is an inner join on eval_encounter_id
ISERV1_get_encounter_data(s, strat) ==
    LET Mine(p) == \E r \in Rows(strat) : r.PatientID = p.PatientId
        medicaid_data == ISERV1_filter_insurance_dates(
                            ISERV1_merge_mediciad_with_stratify(Filter(s.payers, Mine), strat))
        results == ISERV1_find_patients_with_only_medicaids(medicaid_data, strat)
        Has(r) == r.eval_encounter_id \in DOMAIN results
        With(r) == r @@ [Medicaid |-> IF results[r.eval_encounter_id] THEN "True" ELSE "False"]
    IN  Map(Filter(strat, Has), With)

\* __fill_blank_stratify
ISERV1_fill_blank_stratify(strat) ==
    LET F(r) == [Ethnicity |-> FillBlank(r.Ethnicity), Race |-> FillBlank(r.Race)] @@ r
    IN  Map(strat, F)

\* stratify_data; an empty IN () list is rejected by the database
ISERV1_stratify_data(s, rows) ==
    LET strat0 == ISERV1_initialize_stratify(rows)
        strat1 == ISERV1_get_patient_data(s, strat0)
    IN  IF strat0 = <<>> \/ strat1 = <<>>
        THEN [err |-> "ProgrammingError", rows |-> strat1]
        ELSE [err |-> NoError,
              rows |-> ISERV1_fill_blank_stratify(ISERV1_get_encounter_data(s, strat1))]

\* __trim_unnecessary_populace_data: drop_duplicates() over the five columns
ISERV1_trim_unnecessary_populace_data(rows) ==
    LET Cols(r) == [PatientID |-> r.PatientID,
                    patient_measurement_year_id |-> r.patient_measurement_year_id,
                    CallID |-> r.CallID, eval_encounter_id |-> r.eval_encounter_id,
                    business_days_from_call_to_eval |-> r.business_days_from_call_to_eval]
    IN  DropDupFirst(Map(rows, Cols), Identity)

\* __trim_unnecessary_stratify_data: drop_duplicates('patient_measurement_year_id')
ISERV1_trim_unnecessary_stratify_data(strat) ==
    LET Cols(r) == [patient_measurement_year_id |-> r.patient_measurement_year_id,
                    age |-> r.age, Ethnicity |-> r.Ethnicity,
                    Race |-> r.Race, Medicaid |-> r.Medicaid]
        Key(r) == r.patient_measurement_year_id
    IN  DropDupFirst(Map(strat, Cols), Key)

-----------------------------------------------------------------------------
(* Submeasure.collect_measurement_data driving I-SERV sub-1; aux is the     *)
(* __EXCLUSIONS__ frame (the empty sequence while it is None).              *)

\* get_denominator: _get_populace, then _remove_exclusions
ISERV1_get_denominator ==
    /\ pc = "Uninitialized"
    /\ \E p \in {ISERV1_get_populace(src)} :
           IF p.err # NoError
           THEN /\ pc' = "Failed"
                /\ err' = p.err
                /\ populace' = <<>>
           ELSE /\ pc' = "DenominatorComputed"
                /\ err' = err
                /\ populace' = ISERV1_remove_exclusions(src, p.rows)
    /\ UNCHANGED <<src, stratify, aux, out>>
    /\ UNCHANGED batchVars

\* get_numerator: _apply_time_constraint, then _find_performance_met
ISERV1_get_numerator ==
    /\ pc = "DenominatorComputed"
    /\ \E t \in {ISERV1_apply_time_constraint(src, populace)} :
           IF t.err # NoError
           THEN /\ pc' = "Failed"
                /\ err' = t.err
                /\ UNCHANGED <<populace, aux>>
           ELSE \E p \in {ISERV1_find_performance_met(t.rows)} :
                    /\ populace' = p.rows
                    /\ aux' = p.exclusions
                    /\ err' = p.err
                    /\ pc' = IF p.err # NoError THEN "Failed" ELSE "NumeratorComputed"
    /\ UNCHANGED <<src, stratify, out>>
    /\ UNCHANGED batchVars

\* stratify_data
ISERV1_stratify ==
    /\ pc = "NumeratorComputed"
    /\ \E p \in {ISERV1_stratify_data(src, populace)} :
           /\ stratify' = p.rows
           /\ err' = p.err
           /\ pc' = IF p.err # NoError THEN "Failed" ELSE "Stratified"
    /\ UNCHANGED <<src, populace, aux, out>>
    /\ UNCHANGED batchVars

\* return_final_data
ISERV1_return_final_data ==
    /\ pc = "Stratified"
    /\ populace' = ISERV1_trim_unnecessary_populace_data(populace)
    /\ stratify' = ISERV1_trim_unnecessary_stratify_data(stratify)
    /\ out' = [cohort |-> populace', stratify |-> stratify']
    /\ pc' = "Final"
    /\ UNCHANGED <<src, aux, err>>
    /\ UNCHANGED batchVars

NextIServ ==
    \/ ISERV1_get_denominator
    \/ ISERV1_get_numerator
    \/ ISERV1_stratify
    \/ ISERV1_return_final_data

MaxCalls == 2
MaxEvals == 2

\* a Friday, a Saturday and a December day
ISERV_CallDates == {D(2024, 3, 1), D(2024, 3, 9), D(2024, 12, 10)}
\* a Monday, a Saturday and a day of the next year
ISERV_EvalDates == {D(2024, 3, 4), D(2024, 3, 9), D(2025, 1, 15)}

\* rows of the calls query for one patient
ISERV_CallRows(pid, dob, dates) ==
    [i \in 1..Len(dates) |->
        [PatientID |-> pid, CallID |-> 300 + i, StartDate |-> dates[i], DOB |-> dob]]

\* rows of the evaluations query for one patient, in the order returned
ISERV_EvalRows(pid, dates) ==
    [i \in 1..Len(dates) |->
        [PatientId |-> pid, VisitDateTime |-> dates[i], eval_encounter_id |-> 500 + i]]

ISERV_Sources ==
    {[calls        |-> ISERV_CallRows(123456, dob, cs),
      evals        |-> ISERV_EvalRows(123456, es),
      prior_visits |-> prior,
      patient_data |-> ASC_PatientData(123456, <<"White">>),
      payers       |-> spans] :
        cs \in SeqsOf(ISERV_CallDates, 1, MaxCalls),
        es \in SeqsOf(ISERV_EvalDates, 0, MaxEvals),
        dob \in {D(2000, 6, 1), D(2013, 6, 1)},
        prior \in {<<>>, <<[PatientId |-> 123456, prior_year |-> 2023]>>},
        spans \in {<<>>, <<CHOOSE sp \in ASC_Spans(123456) : sp.Plan = "medicaid" /\ sp.End = NaT>>}}

InitIServ == src \in ISERV_Sources /\ InitSubmeasure /\ Standalone

SpecIServ == InitIServ /\ [][NextIServ]_vars

-----------------------------------------------------------------------------
(* Properties of I-SERV sub-measure 1.                                      *)

\* C2: within the cohort table a sub-measure returns, patient_measurement_year_id
\* is unique, also for I-SERV, which keys a patient's calls by the year of the call
C2_CohortKeyUnique ==
    pc = "Final" =>
        \A i, j \in 1..Len(out.cohort) :
            out.cohort[i].patient_measurement_year_id = out.cohort[j].patient_measurement_year_id
                => i = j

\* the call and the evaluation of the database a cohort row of I-SERV
\* sub-measure 1 was built from
ISERV_CallOfRow(r) == CHOOSE c \in Rows(src.calls) : c.CallID = r.CallID
ISERV_EvalOfRow(r) == CHOOSE e \in Rows(src.evals) : e.eval_encounter_id = r.eval_encounter_id

\* C11: a call whose matched evaluation is dated after the end of the call's
\* measurement year is reported with exactly 31 business days, whatever the
\* time between the call and the evaluation
C11_LateEvaluationCounts31 ==
    pc = "Final" =>
        \A r \in Rows(out.cohort) :
            YearOf(ISERV_EvalOfRow(r).VisitDateTime) > YearOf(ISERV_CallOfRow(r).StartDate)
                => r.business_days_from_call_to_eval = 31

-----------------------------------------------------------------------------
(* ASC sub-measure 2 (ASC.py, class _Sub_2).  Its population is read from   *)
(* the table ptASC_sub_1 of the database, the table main.py writes from a   *)
(* finished ASC run.  src.audits: rows PatientId, EncounterID,               *)
(* screening_date, TotalScore; src.counselings: rows PatientID, EncounterID. *)

\* a table main.py has not written (yet)
NoTable == [exists |-> FALSE, rows |-> <<>>]

\* str(tuple(ids)) in "IN {tuple(ids)}": "()" and "(123,)" are not SQL
InTupleRejected(ids) == Len(ids) <= 1

\* __get_sub_1_numerator: the rows of ptASC_sub_1 with numerator = 1, each with
\* the date of its encounter (LEFT JOIN tblEncounterSummary)
ASC2_get_sub_1_numerator(s, tbl) ==
    LET Met(r) == r.numerator
        DateOfEncounter(id) ==
            IF \E e \in Rows(s.encounters) : e.EncounterID = id
            THEN (CHOOSE e \in Rows(s.encounters) : e.EncounterID = id).encounter_date
            ELSE NaT
        Cols(r) == [PatientId |-> r.PatientId,
                    last_encounter |-> DateOfEncounter(r.EncounterID),
                    measurement_year |-> IF DateOfEncounter(r.EncounterID) = NaT THEN NaT
                                         ELSE YearOf(DateOfEncounter(r.EncounterID))]
    IN  Map(Filter(tbl.rows, Met), Cols)

\* __get_unhealthy_alchohol_users: AUDIT score of 8 or more, PatientId IN ids
ASC2_get_unhealthy_alchohol_users(s, ids) ==
    LET Unhealthy(a) == a.TotalScore >= 8 /\ \E i \in 1..Len(ids) : ids[i] = a.PatientId
    IN  Filter(s.audits, Unhealthy)

\* __create_populace: sub2.merge(sub1), an inner join on PatientId
ASC2_create_populace(sub1, uau) ==
    LET Joined(a) ==
            LET m == PickFrom(sub1, {i \in 1..Len(sub1) : sub1[i].PatientId = a.PatientId}, 1)
            IN  [i \in 1..Len(m) |-> a @@ m[i]]
    IN  FlatMap(uau, Joined, 1)

\* __check_screening_date: screening_date <= last_encounter and
\* last_encounter.date - 1 year <= screening_date
ASC2_check_screening_date(rows) ==
    LET Valid(r) == /\ r.screening_date # NaT /\ r.last_encounter # NaT
                    /\ r.screening_date <= r.last_encounter
                    /\ AddMonths(r.last_encounter, -12) <= r.screening_date
    IN  Filter(rows, Valid)

\* __create_measurement_year_id
ASC2_create_measurement_year_id(r) == PmyId(r.PatientId, YearOf(r.last_encounter))

\* _get_populace; the query fails when ptASC_sub_1 does not exist and when the
\* tuple of ids has fewer than two elements; in __check_screening_date pandas >= 2
\* refuses to order a datetime.date against a Timestamp
ASC2_get_populace(s, tbl) ==
    LET sub1 == ASC2_get_sub_1_numerator(s, tbl)
        Id(r) == r.PatientId
        ids == Map(sub1, Id)
        merged == ASC2_create_populace(sub1, ASC2_get_unhealthy_alchohol_users(s, ids))
        WithKey(r) == r @@ [patient_measurement_year_id |-> ASC2_create_measurement_year_id(r)]
    IN  IF ~tbl.exists \/ InTupleRejected(ids)
        THEN [err |-> "ProgrammingError", rows |-> <<>>]
        ELSE IF s.strictDates /\ merged # <<>>
        THEN [err |-> "TypeError", rows |-> merged]
        ELSE [err |-> NoError, rows |-> Map(ASC2_check_screening_date(merged), WithKey)]

\* _find_performance_met: numerator = EncounterID of the AUDIT is a counseling's
ASC2_find_performance_met(s, rows) ==
    LET Counseled(r) == \E c \in Rows(s.counselings) : c.EncounterID = r.EncounterID
        WithNumerator(r) == r @@ [numerator |-> Counseled(r)]
    IN  Map(rows, WithNumerator)

\* __initialize_stratify
ASC2_initialize_stratify(rows) ==
    LET Cols(r) == [patient_measurement_year_id |-> r.patient_measurement_year_id,
                    PatientId |-> r.PatientId, measurement_year |-> r.measurement_year,
                    EncounterID |-> r.EncounterID, screening_date |-> r.screening_date,
                    last_encounter |-> r.last_encounter]
        Less(a, b) == \/ StrLess(a.patient_measurement_year_id, b.patient_measurement_year_id)
                      \/ /\ a.patient_measurement_year_id = b.patient_measurement_year_id
                         /\ a.EncounterID < b.EncounterID
    IN  DropDupFirst(SortBy(Map(rows, Cols), Less), ASC1_KeyOf)

\* __merge_mediciad_with_stratify, __filter_insurance_dates (by screening_date),
\* __create_measurement_year_id
ASC2_valid_medicaid(payers, strat) ==
    LET Joined(p) ==
            LET m == PickFrom(strat, {i \in 1..Len(strat) : strat[i].PatientId = p.PatientId}, 1)
            IN  [i \in 1..Len(m) |->
                    p @@ [screening_date |-> m[i].screening_date,
                          patient_measurement_year_id |-> ASC2_create_measurement_year_id(m[i])]]
        End(r) == IF r.End = NaT THEN Now ELSE r.End
        Valid(r) == r.Start # NaT /\ r.Start <= r.screening_date /\ End(r) >= r.screening_date
    IN  Filter(FlatMap(payers, Joined, 1), Valid)

\* __get_encounter_data: the last merge is an inner join on the key
ASC2_get_encounter_data(s, strat) ==
    LET Mine(p) == \E r \in Rows(strat) : r.PatientId = p.PatientId
        results == ASC1_determine_medicaid_stratify(
                       ASC2_valid_medicaid(Filter(s.payers, Mine), strat), strat)
        Has(r) == r.patient_measurement_year_id \in DOMAIN results
        With(r) == r @@ [Medicaid |-> IF results[r.patient_measurement_year_id] THEN "True" ELSE "False"]
    IN  Map(Filter(strat, Has), With)

\* stratify_data; both queries list the ids as a tuple
ASC2_stratify_data(s, rows) ==
    LET strat0 == ASC2_initialize_stratify(rows)
        Mine(p) == \E r \in Rows(strat0) : r.PatientId = p.PatientId
        strat1 == MergePatientDataLeft(strat0, Filter(s.patient_data, Mine))
    IN  IF InTupleRejected(strat0) \/ InTupleRejected(strat1)
        THEN [err |-> "ProgrammingError", rows |-> <<>>]
        ELSE [err |-> NoError,
              rows |-> ASC1_fill_blank_stratify(ASC2_get_encounter_data(s, strat1))]

\* __trim_unnecessary_populace_data
ASC2_trim_unnecessary_populace_data(rows) ==
    LET Cols(r) == [patient_measurement_year_id |-> r.patient_measurement_year_id,
                    PatientId |-> r.PatientId, EncounterID |-> r.EncounterID,
                    numerator |-> r.numerator]
    IN  DropDupFirst(Map(rows, Cols), ASC1_KeyOf)

-----------------------------------------------------------------------------
(* I-SERV sub-measure 2 (I_SERV.py, class _Sub_2).  Its calls are read from *)
(* the table ptISERV_sub1 of the database.  src.services: rows PatientId,   *)
(* service_encounter_id, VisitDateTime, in the order returned.              *)

\* __get_calls: the rows of ptISERV_sub1, each with the StartDate of its call
\* (LEFT JOIN tblProgramManagementDetails)
ISERV2_get_calls(s, tbl) ==
    LET StartOf(id) ==
            IF \E c \in Rows(s.calls) : c.CallID = id
            THEN (CHOOSE c \in Rows(s.calls) : c.CallID = id).StartDate
            ELSE NaT
        Cols(r) == [PatientID |-> r.PatientID,
                    patient_measurement_year_id |-> r.patient_measurement_year_id,
                    CallID |-> r.CallID, StartDate |-> StartOf(r.CallID)]
    IN  Map(tbl.rows, Cols)

\* __get_next_date of sub-measure 2
ISERV2_get_next_date(call, services) ==
    LET Valid(e) == e.VisitDateTime >= call
        valid_services == Filter(services, Valid)
    IN  IF Len(valid_services) > 0
        THEN [service_date |-> valid_services[1].VisitDateTime,
              service_encounter_id |-> valid_services[1].service_encounter_id]
        ELSE [service_date |-> NaT, service_encounter_id |-> NaT]

\* the calls of patients that have a service, each with its next service
ISERV2_has_service(s, calls_) ==
    LET HasService(c) == \E e \in Rows(s.services) : e.PatientId = c.PatientID
        Next(c) == LET Mine(e) == e.PatientId = c.PatientID
                   IN  c @@ ISERV2_get_next_date(c.StartDate, Filter(s.services, Mine))
    IN  Map(Filter(calls_, HasService), Next)

RECURSIVE StrInt(_)
\* int(s) of a string of digits
StrInt(s) ==
    IF s = <<>> THEN 0
    ELSE 10 * StrInt(SubSeq(s, 1, Len(s) - 1))
         + ((CHOOSE d \in 1..10 : DigitChars[d] = s[Len(s)]) - 1)

\* __calculate_measurement_year: int(patient_measurement_year_id[-4:])
ISERV2_calculate_measurement_year(r) ==
    r @@ [measurement_year |->
            StrInt(SubSeq(r.patient_measurement_year_id,
                          Len(r.patient_measurement_year_id) - 3,
                          Len(r.patient_measurement_year_id)))]

\* _get_populace: __get_calls, __get_initial_service, __match_service_to_call
ISERV2_get_populace(s, tbl) ==
    LET calls_ == ISERV2_get_calls(s, tbl)
        NoService(c) == \A e \in Rows(s.services) : e.PatientId # c.PatientID
        Blank(c) == c @@ [service_date |-> NaT, service_encounter_id |-> NaT]
        has_service == ISERV2_has_service(s, calls_)
    IN  IF ~tbl.exists
        THEN [err |-> "ProgrammingError", rows |-> <<>>]
        ELSE IF has_service = <<>>
        THEN [err |-> "ValueError", rows |-> <<>>]
        ELSE [err |-> NoError,
              rows |-> Map(has_service \o Map(Filter(calls_, NoService), Blank),
                           ISERV2_calculate_measurement_year)]

\* _apply_time_constraint, row by row
ISERV2_time_constraint_of_row(r) ==
    [service_date |-> IF r.service_date = NaT THEN NaT
                      ELSE IF YearOf(r.service_date) = r.measurement_year THEN r.service_date
                      ELSE BDayAdd(r.service_date, 31)] @@ r

\* _apply_time_constraint
ISERV2_apply_time_constraint(rows) ==
    IF rows = <<>> THEN [err |-> "ValueError", rows |-> rows]
    ELSE IF \A r \in Rows(rows) : r.service_date = NaT
    THEN [err |-> "AttributeError", rows |-> rows]
    ELSE [err |-> NoError, rows |-> Map(rows, ISERV2_time_constraint_of_row)]

\* __calculate_days_from_call, row by row
ISERV2_days_from_call(r) ==
    r @@ [business_days_from_call_to_service |-> BusinessDays(r.StartDate, r.service_date) - 1]

\* _find_performance_met: __handle_calls_without_service, __calculate_days_from_call
ISERV2_find_performance_met(rows) ==
    LET NoService(r) == r.service_date = NaT
        Served(r) == r.service_date # NaT
        Cols(r) == [PatientID |-> r.PatientID, StartDate |-> r.StartDate]
        kept == Filter(rows, Served)
        exclusions == Map(Filter(rows, NoService), Cols)
    IN  IF kept = <<>>
        THEN [err |-> "ValueError", rows |-> kept, exclusions |-> exclusions]
        ELSE [err |-> NoError, rows |-> Map(kept, ISERV2_days_from_call),
              exclusions |-> exclusions]

\* _set_stratify: the rows of sub-measure 1's stratify table whose key is in the
\* populace
ISERV2_set_stratify(sub1_stratify, rows) ==
    LET Mine(r) == r.patient_measurement_year_id \in KeysOf(rows)
    IN  Filter(sub1_stratify, Mine)

\* __trim_unnecessary_populace_data
ISERV2_trim_unnecessary_populace_data(rows) ==
    LET Cols(r) == [PatientID |-> r.PatientID,
                    patient_measurement_year_id |-> r.patient_measurement_year_id,
                    StartDate |-> r.StartDate,
                    service_encounter_id |-> r.service_encounter_id,
                    business_days_from_call_to_service |-> r.business_days_from_call_to_service]
    IN  DropDupFirst(Map(rows, Cols), Identity)

-----------------------------------------------------------------------------
(* SDOH (SDOH.py, class _Sub_1): the denominator and the numerator.         *)
(* src.sdoh_visits: rows PatientId, EncounterId, VisitDateTime, DOB;        *)
(* src.sdoh_screenings: rows PatientId, screening_id, screening_date.       *)

\* _get_populace
SDOH_get_populace(s) ==
    LET WithKey(r) == r @@ [patient_measurement_year_id |->
                                PmyId(r.PatientId, YearOf(r.VisitDateTime))]
    IN  Map(s.sdoh_visits, WithKey)

\* _remove_exclusions: age = days // 365.25, keep age >= 18, then the first
\* encounter of every key
SDOH_remove_exclusions(rows) ==
    LET WithAge(r) == r @@ [age |-> ((r.VisitDateTime - r.DOB) * 4) \div 1461]
        Adult(r) == r.age >= 18
        Less(a, b) == \/ StrLess(a.patient_measurement_year_id, b.patient_measurement_year_id)
                      \/ /\ a.patient_measurement_year_id = b.patient_measurement_year_id
                         /\ a.VisitDateTime < b.VisitDateTime
    IN  DropDupFirst(SortBy(Filter(Map(rows, WithAge), Adult), Less), ASC1_KeyOf)

\* _find_performance_met: the last screening of every key is merged into the
\* populace (a left join on the key); the ids are listed as a tuple
SDOH_find_performance_met(s, rows) ==
    LET Mine(c) == \E r \in Rows(rows) : r.PatientId = c.PatientId
        Keyed(c) == c @@ [patient_measurement_year_id |->
                              PmyId(c.PatientId, YearOf(c.screening_date))]
        Later(a, b) == a.screening_date > b.screening_date
        last == DropDupFirst(SortBy(Map(Filter(s.sdoh_screenings, Mine), Keyed), Later),
                             ASC1_KeyOf)
        Joined(r) ==
            LET m == PickFrom(last, {i \in 1..Len(last) :
                        last[i].patient_measurement_year_id = r.patient_measurement_year_id}, 1)
            IN  IF m = <<>> THEN <<r @@ [screening_id |-> NaT, screening_date |-> NaT]>>
                ELSE [i \in 1..Len(m) |-> r @@ [screening_id |-> m[i].screening_id,
                                                screening_date |-> m[i].screening_date]]
    IN  IF InTupleRejected(rows)
        THEN [err |-> "ProgrammingError", rows |-> rows]
        ELSE [err |-> NoError, rows |-> FlatMap(rows, Joined, 1)]

\* _apply_time_constraint (__set_numerator): it reads the screening_date column
\* that _find_performance_met adds; the rows of age 18 come first in the result
SDOH_apply_time_constraint(rows) ==
    LET Is18(r) == r.age = 18
        Over18(r) == r.age > 18
        Num18(r) == r @@ [numerator |-> r.screening_date # NaT
                                        /\ r.screening_date >= AddMonths(r.DOB, 216)]
        NumOver(r) == r @@ [numerator |-> r.screening_date # NaT]
    IN  IF \E r \in Rows(rows) : "screening_date" \notin DOMAIN r
        THEN [err |-> "KeyError", rows |-> rows]
        ELSE [err |-> NoError,
              rows |-> Map(Filter(rows, Is18), Num18) \o Map(Filter(rows, Over18), NumOver)]

\* __trim_unnecessary_populace_data
SDOH_trim_unnecessary_populace_data(rows) ==
    LET Cols(r) == [patient_measurement_year_id |-> r.patient_measurement_year_id,
                    PatientId |-> r.PatientId, EncounterId |-> r.EncounterId,
                    numerator |-> r.numerator, screening_id |-> r.screening_id,
                    screening_date |-> r.screening_date]
    IN  DropDupFirst(Map(rows, Cols), ASC1_KeyOf)

-----------------------------------------------------------------------------
(* CDF-CH (CDF_CH.py, class _Sub_1): the denominator and the numerator.     *)
(* src.cdfch_visits: rows PatientId, EncounterId, VisitDateTime, DOB, in    *)
(* the order returned; src.phqa: rows PatientId, EncounterID,               *)
(* screening_date, TotalScore; src.depressions, src.bipolars: rows          *)
(* PatientId, exclusion_date.                                               *)

\* _get_populace: the first visit of every patient and year; the .dt accessor
\* fails on the object column of an empty result
CDFCH_get_populace(s) ==
    LET WithKey(r) == r @@ [patient_measurement_year_id |->
                                PmyId(r.PatientId, YearOf(r.VisitDateTime))]
        Less(a, b) == \/ StrLess(a.patient_measurement_year_id, b.patient_measurement_year_id)
                      \/ /\ a.patient_measurement_year_id = b.patient_measurement_year_id
                         /\ a.VisitDateTime < b.VisitDateTime
    IN  IF s.cdfch_visits = <<>>
        THEN [err |-> "AttributeError", rows |-> <<>>]
        ELSE [err |-> NoError,
              rows |-> DropDupFirst(SortBy(Map(s.cdfch_visits, WithKey), Less), ASC1_KeyOf)]

\* __calculate_age: (VisitDateTime - DOB).dt.days // 365.25; NaN for a null DOB
CDFCH_calculate_age(r) ==
    r @@ [age |-> IF r.DOB = NaT THEN NaT ELSE ((r.VisitDateTime - r.DOB) * 4) \div 1461]

\* a filter that leaves out the boundary ages: 12 < age < 17
CDFCH_filter_age_exclusive(rows) ==
    LET Kept(r) == r.age # NaT /\ r.age > 12 /\ r.age < 17 IN Filter(rows, Kept)

\* __filter_age: 12 <= age <= 17 (a NaN age compares False)
CDFCH_filter_age(rows) ==
    LET Kept(r) == r.age # NaT /\ r.age >= 12 /\ r.age <= 17 IN Filter(rows, Kept)

\* __remove_age_exclusion
CDFCH_remove_age_exclusion(rows) == CDFCH_filter_age(Map(rows, CDFCH_calculate_age))

\* __filter_mental_exclsusion: the earliest diagnosis of every patient is joined
\* (left) to the populace; a row stays when its visit is on or before it, or
\* when there is none
CDFCH_filter_mental_exclsusion(rows, exclusions) ==
    LET Dated(e) == e.exclusion_date # NaT
        Earlier(a, b) == \/ a.PatientId < b.PatientId
                         \/ a.PatientId = b.PatientId /\ Dated(a)
                            /\ (~Dated(b) \/ a.exclusion_date < b.exclusion_date)
        PatientOf(e) == e.PatientId
        first == DropDupFirst(SortBy(exclusions, Earlier), PatientOf)
        Kept(r) == \A e \in Rows(first) :
                       e.PatientId = r.PatientId
                            => ~Dated(e) \/ r.VisitDateTime <= e.exclusion_date
    IN  Filter(rows, Kept)

\* _remove_exclusions: age, then depression, then bipolar disorder
CDFCH_remove_exclusions(s, rows) ==
    CDFCH_filter_mental_exclsusion(
        CDFCH_filter_mental_exclsusion(CDFCH_remove_age_exclusion(rows), s.depressions),
        s.bipolars)

\* __prep_screenings_for_merge: the key of a screening is built from the year of
\* its own date (dt.year is float, '2024.0', when some screening_date is null);
\* drop_duplicates(keep='last') has no subset and removes only rows equal in
\* every column
CDFCH_prep_screenings_for_merge(scr) ==
    LET YearStr(d) == IF \A c \in Rows(scr) : c.screening_date # NaT THEN IntStr(YearOf(d))
                      ELSE IF d = NaT THEN NanStr ELSE FloatStr(YearOf(d))
        Keyed(c) == [patient_measurement_year_id |->
                        IntStr(c.PatientId) \o <<"-">> \o YearStr(c.screening_date),
                     screening_encounter_id |-> c.EncounterID,
                     screening_date |-> c.screening_date,
                     screening_score |-> c.TotalScore]
        Less(a, b) == \/ StrLess(a.patient_measurement_year_id, b.patient_measurement_year_id)
                      \/ /\ a.patient_measurement_year_id = b.patient_measurement_year_id
                         /\ a.screening_date < b.screening_date
    IN  DropDupLast(SortBy(Map(scr, Keyed), Less), Identity)

\* __add_screenings_to_populace: populace.merge(screenings, on the key, how='left')
CDFCH_add_screenings_to_populace(rows, scr) ==
    LET Joined(r) ==
            LET m == PickFrom(scr, {i \in 1..Len(scr) :
                        scr[i].patient_measurement_year_id = r.patient_measurement_year_id}, 1)
            IN  IF m = <<>>
                THEN <<r @@ [screening_encounter_id |-> NaT, screening_date |-> NaT,
                             screening_score |-> NaT]>>
                ELSE [i \in 1..Len(m) |->
                        r @@ [screening_encounter_id |-> m[i].screening_encounter_id,
                              screening_date |-> m[i].screening_date,
                              screening_score |-> m[i].screening_score]]
    IN  FlatMap(rows, Joined, 1)

\* __determine_screenings_results: screening_score > 9 (NaN compares False)
CDFCH_determine_screenings_results(r) ==
    r @@ [positive_screening |-> r.screening_score # NaT /\ r.screening_score > 9]

\* __find_follow_ups: groupby('PatientId')['VisitDateTime'].max() over the
\* populace, which holds the first visit of every patient and year
CDFCH_find_follow_ups(rows, pid) ==
    CHOOSE d \in {r.VisitDateTime : r \in {x \in Rows(rows) : x.PatientId = pid}} :
        \A x \in Rows(rows) : x.PatientId = pid => x.VisitDateTime <= d

\* __set_negative_numerators
CDFCH_set_negative_numerators(r) ==
    r @@ [numerator |-> TRUE, numerator_desc |-> "Negative screening", last_encounter |-> NaT]

\* __set_positive_numerators, __set_positive_numerator_fields: the rows with a
\* later last_encounter first, then the others
CDFCH_set_positive_numerators(positive, rows) ==
    LET WithLast(r) == r @@ [last_encounter |-> CDFCH_find_follow_ups(rows, r.PatientId)]
        Met(r) == r.last_encounter > r.screening_date
        NotMet(r) == ~Met(r)
        Yes(r) == r @@ [numerator |-> TRUE, numerator_desc |-> "Positive screening with follow up"]
        No(r) == r @@ [numerator |-> FALSE, numerator_desc |-> "NULL"]
        merged == Map(positive, WithLast)
    IN  Map(Filter(merged, Met), Yes) \o Map(Filter(merged, NotMet), No)

\* _find_performance_met; an empty or all-null screening_date column has no .dt
\* accessor
CDFCH_find_performance_met(s, rows) ==
    LET populace_ == Map(CDFCH_add_screenings_to_populace(rows,
                            CDFCH_prep_screenings_for_merge(s.phqa)),
                         CDFCH_determine_screenings_results)
        Positive(r) == r.positive_screening
        Negative(r) == ~r.positive_screening
    IN  IF \A c \in Rows(s.phqa) : c.screening_date = NaT
        THEN [err |-> "AttributeError", rows |-> rows]
        ELSE [err |-> NoError,
              rows |-> CDFCH_set_positive_numerators(Filter(populace_, Positive), populace_)
                       \o Map(Filter(populace_, Negative), CDFCH_set_negative_numerators)]

\* __trim_unnecessary_populace_data
CDFCH_trim_unnecessary_populace_data(rows) ==
    LET Cols(r) == [patient_measurement_year_id |-> r.patient_measurement_year_id,
                    PatientId |-> r.PatientId, EncounterId |-> r.EncounterId,
                    screening_encounter_id |-> r.screening_encounter_id,
                    last_encounter |-> r.last_encounter, numerator |-> r.numerator,
                    numerator_desc |-> r.numerator_desc]
    IN  DropDupFirst(Map(rows, Cols), ASC1_KeyOf)

-----------------------------------------------------------------------------
(* The batch run of main.py: every measurement of measure_list in turn,     *)
(* get_submeasure_data, then the tables written with to_sql.  ASC, I-SERV   *)
(* CDF-CH and the SDOH numerator compute their tables as above; the tables  *)
(* of CDF-AD and DEP-REM are the rows src.cohorts holds for them (the       *)
(* sub-measure specifications above model DEP-REM on its own).  Any step    *)
(* that queries the database can also fail there (OperationalError), and    *)
(* the database may refuse to replace the table src.refused.                *)

\* main.py, measure_list
measure_list == <<"ASC", "CDF_AD", "CDF_CH", "DEP_REM", "I_Serv", "SDOH">>

\* CDF_AD.py is not in the repository snapshot: one sub-measure that follows the
\* protocol of the specification
CDF_AD_Submeasures == <<"CDF_AD">>

\* the sub-measures a measurement's get_submeasure_data drives, by get_name()
Submeasures(m) ==
    CASE m = "ASC"     -> <<"ASC_sub_1", "ASC_sub_2">>
      [] m = "CDF_AD"  -> CDF_AD_Submeasures
      [] m = "CDF_CH"  -> <<"CDF_CH">>
      [] m = "DEP_REM" -> <<"DepRem">>
      [] m = "I_Serv"  -> <<"ISERV_sub_1", "ISERV_sub_2">>
      [] m = "SDOH"    -> <<"SDOH">>

\* SDOH inheriting get_numerator of Submeasure instead of overriding it
InnerCallsNotOverridden(s, step) ==
    CASE step = "get_denominator" ->
            IF s = "ASC_sub_2"
            THEN <<"_get_populace", "_remove_exclusions", "_get_populace">>
            ELSE <<"_get_populace", "_remove_exclusions">>
      [] step = "get_numerator" -> <<"_apply_time_constraint", "_find_performance_met">>
      [] OTHER -> <<>>

\* the methods get_denominator and get_numerator of a sub-measure call, in order
InnerCalls(s, step) ==
    CASE step = "get_denominator" ->
            IF s = "ASC_sub_2"
            THEN <<"_get_populace", "_remove_exclusions", "_get_populace">>
            ELSE <<"_get_populace", "_remove_exclusions">>
      [] step = "get_numerator" ->
            IF s = "SDOH"
            THEN <<"_find_performance_met", "_apply_time_constraint">>
            ELSE <<"_apply_time_constraint", "_find_performance_met">>
      [] OTHER -> <<>>

\* the table the database holds under a name
TableOf(name) ==
    IF name \in DOMAIN sink THEN [exists |-> TRUE, rows |-> sink[name]] ELSE NoTable

\* a method that returns normally
Returned(rows, exclusions) == [err |-> NoError, rows |-> rows, exclusions |-> exclusions]

\* a method that returns what an operator of the sub-measure computed
Outcome(r, exclusions) == [err |-> r.err, rows |-> r.rows, exclusions |-> exclusions]

\* one method of a sub-measure, on the sub-measure's populace and exclusions
Method(s, name, st) ==
    CASE s = "ASC_sub_1" /\ name = "_get_populace" ->
            Outcome(ASC1_get_populace(src), st.exclusions)
      [] s = "ASC_sub_1" /\ name = "_remove_exclusions" ->
            Returned(ASC1_remove_exclusions(src, st.rows), st.exclusions)
      [] s = "ASC_sub_1" /\ name = "_apply_time_constraint" ->
            Returned(ASC1_apply_time_constraint(st.rows), st.exclusions)
      [] s = "ASC_sub_1" /\ name = "_find_performance_met" ->
            Outcome(ASC1_find_performance_met(src, st.rows), st.exclusions)
      [] s = "ASC_sub_2" /\ name = "_get_populace" ->
            Outcome(ASC2_get_populace(src, TableOf("ptASC_sub_1")), st.exclusions)
      [] s = "ASC_sub_2" /\ name = "_find_performance_met" ->
            Returned(ASC2_find_performance_met(src, st.rows), st.exclusions)
      [] s = "ISERV_sub_1" /\ name = "_get_populace" ->
            Outcome(ISERV1_get_populace(src), st.exclusions)
      [] s = "ISERV_sub_1" /\ name = "_remove_exclusions" ->
            Returned(ISERV1_remove_exclusions(src, st.rows), st.exclusions)
      [] s = "ISERV_sub_1" /\ name = "_apply_time_constraint" ->
            Outcome(ISERV1_apply_time_constraint(src, st.rows), st.exclusions)
      [] s = "ISERV_sub_1" /\ name = "_find_performance_met" ->
            ISERV1_find_performance_met(st.rows)
      [] s = "ISERV_sub_2" /\ name = "_get_populace" ->
            Outcome(ISERV2_get_populace(src, TableOf("ptISERV_sub1")), st.exclusions)
      [] s = "ISERV_sub_2" /\ name = "_apply_time_constraint" ->
            Outcome(ISERV2_apply_time_constraint(st.rows), st.exclusions)
      [] s = "ISERV_sub_2" /\ name = "_find_performance_met" ->
            ISERV2_find_performance_met(st.rows)
      [] s = "SDOH" /\ name = "_get_populace" ->
            Returned(SDOH_get_populace(src), st.exclusions)
      [] s = "SDOH" /\ name = "_remove_exclusions" ->
            Returned(SDOH_remove_exclusions(st.rows), st.exclusions)
      [] s = "SDOH" /\ name = "_find_performance_met" ->
            Outcome(SDOH_find_performance_met(src, st.rows), st.exclusions)
      [] s = "SDOH" /\ name = "_apply_time_constraint" ->
            Outcome(SDOH_apply_time_constraint(st.rows), st.exclusions)
      [] s = "CDF_CH" /\ name = "_get_populace" ->
            Outcome(CDFCH_get_populace(src), st.exclusions)
      [] s = "CDF_CH" /\ name = "_remove_exclusions" ->
            Returned(CDFCH_remove_exclusions(src, st.rows), st.exclusions)
      [] s = "CDF_CH" /\ name = "_find_performance_met" ->
            Outcome(CDFCH_find_performance_met(src, st.rows), st.exclusions)
      [] s \in {"CDF_AD", "DepRem"} /\ name = "_get_populace" ->
            Returned(src.cohorts[s], st.exclusions)
      [] OTHER -> Returned(st.rows, st.exclusions)

RECURSIVE RunCalls(_, _, _, _, _)
\* the methods names[i..] called in order on the sub-measure; the first that
\* raises ends the step, and the failAt-th fails in the database
RunCalls(s, names, i, st, failAt) ==
    LET Raised(e, r) == [err |-> e, rows |-> r.rows, exclusions |-> r.exclusions,
                         inner |-> SubSeq(names, 1, i)]
        Continue(r) ==
            IF r.err # NoError THEN Raised(r.err, r)
            ELSE RunCalls(s, names, i + 1, [rows |-> r.rows, exclusions |-> r.exclusions], failAt)
        Call(v) == Method(s, names[i], v)
    IN  IF i > Len(names)
        THEN [err |-> NoError, rows |-> st.rows, exclusions |-> st.exclusions, inner |-> names]
        ELSE IF i = failAt THEN Raised("OperationalError", st)
        ELSE Once(Once(st, Call), Continue)

\* stratify_data of a sub-measure
StratifyData(s, rows) ==
    LET Opaque(r) == [patient_measurement_year_id |-> r.patient_measurement_year_id,
                      measurement_year |-> 2024, Ethnicity |-> "Unknown",
                      Race |-> "Unknown", Medicaid |-> "False"]
    IN  CASE s = "ASC_sub_1"   -> ASC1_stratify_data(src, rows)
          [] s = "ASC_sub_2"   -> ASC2_stratify_data(src, rows)
          [] s = "ISERV_sub_1" -> ISERV1_stratify_data(src, rows)
          [] OTHER -> [err |-> NoError, rows |-> Map(rows, Opaque)]

\* __trim_unnecessary_populace_data of a sub-measure
TrimPopulace(s, rows) ==
    CASE s = "ASC_sub_1"   -> ASC1_trim_unnecessary_populace_data(rows)
      [] s = "ASC_sub_2"   -> ASC2_trim_unnecessary_populace_data(rows)
      [] s = "ISERV_sub_1" -> ISERV1_trim_unnecessary_populace_data(rows)
      [] s = "ISERV_sub_2" -> ISERV2_trim_unnecessary_populace_data(rows)
      [] s = "SDOH"        -> SDOH_trim_unnecessary_populace_data(rows)
      [] s = "CDF_CH"      -> CDFCH_trim_unnecessary_populace_data(rows)
      [] OTHER -> DropDupFirst(rows, ASC1_KeyOf)

\* __trim_unnecessary_stratify_data of a sub-measure; I-SERV sub-measure 2 has none
TrimStratify(s, strat) ==
    CASE s \in {"ASC_sub_1", "ASC_sub_2"} -> ASC1_trim_unnecessary_stratify_data(strat)
      [] s = "ISERV_sub_1" -> ISERV1_trim_unnecessary_stratify_data(strat)
      [] s = "ISERV_sub_2" -> strat
      [] OTHER -> DropDupFirst(strat, ASC1_KeyOf)

\* the entry a step leaves in calls
CallOf(s, step, inner, e) == [sub |-> s, step |-> step, inner |-> inner, raised |-> e # NoError]

\* a step that swallows its exception and lets the sub-measure go on
AfterStepSwallowed(e, done) == done

\* the state of the sub-measure after a step: every step re-raises what it caught
\* (except Exception: ... raise), so the caller never reaches the next step
AfterStep(e, done) == IF e # NoError THEN "Failed" ELSE done

\* the keys of a dictionary kept as a sequence of [key, table]
Keys(d) == {d[i].key : i \in 1..Len(d)}

\* the table under a key of the dictionary
Lookup(d, k) == (CHOOSE e \in Rows(d) : e.key = k).table

\* I_Serv.get_submeasure_data: the key of a sub-measure's exclusions
ExclusionsKey(s) == IF s = "ISERV_sub_1" THEN "IServ_sub1_exclusions" ELSE "IServ_sub2_exclusions"

\* the sub-measure get_submeasure_data starts next, or "none"
NextSubmeasure ==
    LET subs == Submeasures(measure_list[measure])
    IN  IF sub = "none" THEN subs[1]
        ELSE IF /\ pc = "Final"
                /\ \E i \in 1..(Len(subs) - 1) : subs[i] = sub
                /\ measure_list[measure] = "I_Serv" => ExclusionsKey(sub) \in Keys(sub_data)
        THEN subs[(CHOOSE i \in 1..(Len(subs) - 1) : subs[i] = sub) + 1]
        ELSE "none"

\* get_submeasure_data has driven every sub-measure of the measurement
Collected ==
    LET subs == Submeasures(measure_list[measure])
    IN  /\ sub = subs[Len(subs)]
        /\ pc = "Final"
        /\ measure_list[measure] = "I_Serv" => ExclusionsKey(sub) \in Keys(sub_data)

\* the runs of main.py in a row that are followed
MaxRuns == 2

\* the inner calls of a step of n calls the database may fail (0: none); the
\* database fails queries in the first run only, and main.py is run again only
\* after a run in which it failed none
FaultPoints(n) == IF Len(start) = 1 THEN 0..n ELSE {0}

\* Submeasure.get_denominator on the next sub-measure: _get_populace, then
\* _remove_exclusions (ASC sub-measure 2 then calls _get_populace again)
get_denominator ==
    /\ measure \in 1..Len(measure_list)
    /\ err = NoError
    /\ \E s \in {NextSubmeasure} :
        /\ s # "none"
        /\ \E failAt \in FaultPoints(Len(InnerCalls(s, "get_denominator"))) :
           \E o \in {RunCalls(s, InnerCalls(s, "get_denominator"), 1,
                              [rows |-> <<>>, exclusions |-> <<>>], failAt)} :
                /\ sub' = s
                /\ calls' = (IF sub = "none" THEN <<>> ELSE calls)
                                \o <<CallOf(s, "get_denominator", o.inner, o.err)>>
                /\ sub_data' = IF sub = "none" THEN <<>> ELSE sub_data
                /\ populace' = o.rows
                /\ aux' = o.exclusions
                /\ err' = o.err
                /\ pc' = AfterStep(o.err, "DenominatorComputed")
                /\ faulted' = (faulted \/ o.err = "OperationalError")
    /\ stratify' = <<>>
    /\ out' = NoOutput
    /\ UNCHANGED <<src, measure, sink, start>>

\* Submeasure.get_numerator: _apply_time_constraint, then _find_performance_met
\* (SDOH overrides it and calls them the other way round)
get_numerator ==
    /\ measure \in 1..Len(measure_list)
    /\ pc = "DenominatorComputed"
    /\ \E failAt \in FaultPoints(Len(InnerCalls(sub, "get_numerator"))) :
       \E o \in {RunCalls(sub, InnerCalls(sub, "get_numerator"), 1,
                          [rows |-> populace, exclusions |-> aux], failAt)} :
            /\ calls' = calls \o <<CallOf(sub, "get_numerator", o.inner, o.err)>>
            /\ populace' = o.rows
            /\ aux' = o.exclusions
            /\ err' = o.err
            /\ pc' = AfterStep(o.err, "NumeratorComputed")
            /\ faulted' = (faulted \/ o.err = "OperationalError")
    /\ UNCHANGED <<src, stratify, out, measure, sub, sub_data, sink, start>>

\* stratify_data; I_Serv.get_submeasure_data does not call it on sub-measure 2
stratify_data ==
    /\ measure \in 1..Len(measure_list)
    /\ pc = "NumeratorComputed"
    /\ sub # "ISERV_sub_2"
    /\ \E fail \in {p # 0 : p \in FaultPoints(1)} :
       \E o \in {IF fail THEN [err |-> "OperationalError", rows |-> <<>>]
                 ELSE StratifyData(sub, populace)} :
            /\ calls' = calls \o <<CallOf(sub, "stratify_data", <<>>, o.err)>>
            /\ stratify' = o.rows
            /\ err' = o.err
            /\ pc' = AfterStep(o.err, "Stratified")
            /\ faulted' = (faulted \/ fail)
    /\ UNCHANGED <<src, populace, aux, out, measure, sub, sub_data, sink, start>>

\* I_Serv.get_submeasure_data: sub2._set_stratify(sub1.get_stratify_dataframe())
set_stratify ==
    /\ measure \in 1..Len(measure_list)
    /\ pc = "NumeratorComputed"
    /\ sub = "ISERV_sub_2"
    /\ stratify' = ISERV2_set_stratify(Lookup(sub_data, "ISERV_sub_1_stratify"), populace)
    /\ calls' = calls \o <<CallOf(sub, "_set_stratify", <<>>, NoError)>>
    /\ pc' = "Stratified"
    /\ UNCHANGED <<src, populace, aux, err, out, measure, sub, sub_data, sink, start, faulted>>

\* return_final_data, and the two entries get_submeasure_data makes of its result
return_final_data ==
    /\ measure \in 1..Len(measure_list)
    /\ pc = "Stratified"
    /\ populace' = TrimPopulace(sub, populace)
    /\ stratify' = TrimStratify(sub, stratify)
    /\ out' = [cohort |-> populace', stratify |-> stratify']
    /\ sub_data' = sub_data \o <<[key |-> sub, table |-> populace'],
                                 [key |-> sub \o "_stratify", table |-> stratify']>>
    /\ calls' = calls \o <<CallOf(sub, "return_final_data", <<>>, NoError)>>
    /\ pc' = "Final"
    /\ UNCHANGED <<src, aux, err, measure, sub, sink, start, faulted>>

\* I_Serv.get_submeasure_data: results[...] = sub._get_exclusions_dataframe(),
\* which copies __EXCLUSIONS__; None has no copy()
get_exclusions_dataframe ==
    /\ measure \in 1..Len(measure_list)
    /\ measure_list[measure] = "I_Serv"
    /\ pc = "Final"
    /\ err = NoError
    /\ ExclusionsKey(sub) \notin Keys(sub_data)
    /\ IF aux = <<>>
       THEN err' = "AttributeError" /\ sub_data' = sub_data
       ELSE err' = err /\ sub_data' = sub_data \o <<[key |-> ExclusionsKey(sub), table |-> aux]>>
    /\ UNCHANGED <<src, pc, populace, stratify, aux, out, measure, sub, calls, sink, start, faulted>>

\* main.py: the name of the table a key of sub_data is written to, "" for none
SinkName(key) ==
    IF key = "ISERV_sub_1_stratify" THEN "pt" \o key \o "_and_2_strtatify"
    ELSE IF key = "ISERV_sub_2_stratify" THEN ""
    ELSE "pt" \o key

\* main.py: value.to_sql(name, if_exists='replace') for every item of sub_data
WriteAll(tables, d) ==
    LET written == {SinkName(k) : k \in Keys(d)} \ {""}
        KeyOfName(n) == CHOOSE k \in Keys(d) : SinkName(k) = n
    IN  [n \in (DOMAIN tables) \cup written |->
            IF n \in written THEN Lookup(d, KeyOfName(n)) ELSE tables[n]]

\* main.py: the items of sub_data that are written before a to_sql raises; the
\* database refuses to replace the table src.refused ("" when it refuses none)
WrittenItems(d, refused) ==
    LET stops == {i \in 1..Len(d) : refused # "" /\ SinkName(d[i].key) = refused}
    IN  IF stops = {} THEN d
        ELSE SubSeq(d, 1, (CHOOSE i \in stops : \A j \in stops : i <= j) - 1)

\* main.py: get_submeasure_data returned; its tables are written one by one, a
\* to_sql that raises ends the writing (except Exception: pass), then the next
\* measurement
main_to_sql ==
    /\ measure \in 1..Len(measure_list)
    /\ err = NoError
    /\ Collected
    /\ sink' = WriteAll(sink, WrittenItems(sub_data, src.refused))
    /\ measure' = measure + 1
    /\ sub' = "none"
    /\ pc' = "Uninitialized"
    /\ UNCHANGED <<src, populace, stratify, aux, err, out, calls, sub_data, start, faulted>>

\* a loop without the except clause: the exception ends the batch
main_reraise ==
    /\ measure \in 1..Len(measure_list)
    /\ err # NoError
    /\ measure' = Len(measure_list) + 1
    /\ sub' = "none"
    /\ pc' = "Uninitialized"
    /\ UNCHANGED <<src, populace, stratify, aux, err, out, calls, sub_data, sink, start, faulted>>

\* main.py: except Exception: print, pass; nothing of the measurement is written
main_except ==
    /\ measure \in 1..Len(measure_list)
    /\ err # NoError
    /\ err' = NoError
    /\ sub_data' = <<>>
    /\ measure' = measure + 1
    /\ sub' = "none"
    /\ pc' = "Uninitialized"
    /\ UNCHANGED <<src, populace, stratify, aux, out, calls, sink, start, faulted>>

\* main.py is run again on the same database, a new process: the loop starts
\* over with the sink the run before left
main_rerun ==
    /\ measure = Len(measure_list) + 1
    /\ Len(start) < MaxRuns
    /\ ~faulted
    /\ start' = Append(start, sink)
    /\ measure' = 1
    /\ sub_data' = <<>>
    /\ calls' = <<>>
    /\ populace' = <<>>
    /\ stratify' = <<>>
    /\ aux' = <<>>
    /\ out' = NoOutput
    /\ UNCHANGED <<src, pc, err, sub, sink, faulted>>

Next ==
    \/ get_denominator
    \/ get_numerator
    \/ stratify_data
    \/ set_stratify
    \/ return_final_data
    \/ get_exclusions_dataframe
    \/ main_to_sql
    \/ main_except
    \/ main_rerun

\* the CDF-CH visits of a batch run: on 2024-03-10 patient 345671 is 12 years old
\* to the day, 345672 a day younger, 345673 a day short of 18 and 345674 is 18;
\* 345671 comes back in June, 345675 a year later; 345676 has a diagnosis of 2023;
\* 345677 comes on 2024-01-15, the 18th birthday, 6574 days after the birth
CDFCH_Visits ==
    <<[PatientId |-> 345671, EncounterId |-> 801, VisitDateTime |-> D(2024, 3, 10), DOB |-> D(2012, 3, 10)],
      [PatientId |-> 345672, EncounterId |-> 802, VisitDateTime |-> D(2024, 3, 10), DOB |-> D(2012, 3, 11)],
      [PatientId |-> 345673, EncounterId |-> 803, VisitDateTime |-> D(2024, 3, 10), DOB |-> D(2006, 3, 11)],
      [PatientId |-> 345674, EncounterId |-> 804, VisitDateTime |-> D(2024, 3, 10), DOB |-> D(2006, 3, 10)],
      [PatientId |-> 345671, EncounterId |-> 805, VisitDateTime |-> D(2024, 6, 10), DOB |-> D(2012, 3, 10)],
      [PatientId |-> 345675, EncounterId |-> 806, VisitDateTime |-> D(2024, 2, 1), DOB |-> D(2010, 1, 1)],
      [PatientId |-> 345675, EncounterId |-> 807, VisitDateTime |-> D(2025, 2, 1), DOB |-> D(2010, 1, 1)],
      [PatientId |-> 345676, EncounterId |-> 808, VisitDateTime |-> D(2024, 3, 10), DOB |-> D(2010, 1, 1)],
      [PatientId |-> 345677, EncounterId |-> 809, VisitDateTime |-> D(2024, 1, 15), DOB |-> D(2006, 1, 15)]>>

\* the PHQ-A screenings of a batch run: two positive ones, between two visits of
\* the patient, and a negative one
CDFCH_Screenings ==
    <<[PatientId |-> 345671, EncounterID |-> 811, screening_date |-> D(2024, 4, 1), TotalScore |-> 12],
      [PatientId |-> 345673, EncounterID |-> 803, screening_date |-> D(2024, 3, 10), TotalScore |-> 9],
      [PatientId |-> 345675, EncounterID |-> 812, screening_date |-> D(2024, 5, 1), TotalScore |-> 12]>>

\* the database of a batch run: patient 123456 (two encounters, two calls) and
\* patient 234567 (one call, too young for I-SERV)
BatchSnapshot(scr, strict, evs, refused) ==
     [encounters      |-> ASC_EncounterRows(123456, 2000, <<D(2024, 9, 10), D(2025, 3, 10)>>),
      preventive      |-> <<>>,
      dementia        |-> <<>>,
      screenings      |-> scr,
      patient_data    |-> ASC_PatientData(123456, <<"White">>),
      payers          |-> <<CHOOSE sp \in ASC_Spans(123456) : sp.Plan = "medicaid" /\ sp.End = NaT>>,
      strictDates     |-> strict,
      audits          |-> <<[PatientId |-> 123456, EncounterID |-> 101,
                             screening_date |-> D(2024, 9, 10), TotalScore |-> 9],
                            [PatientId |-> 123456, EncounterID |-> 102,
                             screening_date |-> D(2025, 3, 10), TotalScore |-> 9]>>,
      counselings     |-> <<[PatientID |-> 123456, EncounterID |-> 101]>>,
      calls           |-> ISERV_CallRows(123456, D(2000, 6, 1), <<D(2024, 3, 4), D(2024, 3, 9)>>)
                          \o <<[PatientID |-> 234567, CallID |-> 399,
                                StartDate |-> D(2024, 3, 1), DOB |-> D(2013, 6, 1)]>>,
      evals           |-> ISERV_EvalRows(123456, evs),
      prior_visits    |-> <<>>,
      services        |-> <<[PatientId |-> 123456, service_encounter_id |-> 601,
                             VisitDateTime |-> D(2024, 3, 5)],
                            [PatientId |-> 234567, service_encounter_id |-> 602,
                             VisitDateTime |-> D(2024, 3, 5)]>>,
      sdoh_visits     |-> <<[PatientId |-> 123456, EncounterId |-> 101,
                             VisitDateTime |-> D(2024, 9, 10), DOB |-> D(2006, 9, 10)],
                            [PatientId |-> 123456, EncounterId |-> 102,
                             VisitDateTime |-> D(2025, 3, 10), DOB |-> D(2006, 9, 10)],
                            [PatientId |-> 234567, EncounterId |-> 103,
                             VisitDateTime |-> D(2024, 9, 10), DOB |-> D(2006, 9, 11)],
                            [PatientId |-> 345677, EncounterId |-> 104,
                             VisitDateTime |-> D(2024, 1, 15), DOB |-> D(2006, 1, 15)]>>,
      sdoh_screenings |-> <<[PatientId |-> 123456, screening_id |-> 701,
                             screening_date |-> D(2024, 9, 10)]>>,
      cdfch_visits    |-> CDFCH_Visits,
      phqa            |-> CDFCH_Screenings,
      depressions     |-> <<[PatientId |-> 345676, exclusion_date |-> D(2023, 5, 1)]>>,
      bipolars        |-> <<>>,
      cohorts         |-> [s \in {"CDF_AD", "DepRem"} |->
                             <<[PatientId |-> 123456,
                                patient_measurement_year_id |-> PmyId(123456, 2024),
                                numerator |-> FALSE]>>],
      refused         |-> refused]

\* the ASC screenings of a batch run, the dated one on day
BatchScreenings(day) ==
    <<[PatientId |-> 123456, screening_date |-> NaT],
      [PatientId |-> 123456, screening_date |-> day]>>

\* the tables a database may refuse to replace
RefusedTables == {"ptCDF_CH_stratify", "ptISERV_sub_2"}

\* a database with a second ASC patient, 234567, seen and screened on 2024-09-10
\* with an AUDIT score of 9
BatchSnapshotTwoPatients ==
    [BatchSnapshot(BatchScreenings(D(2024, 9, 10)), FALSE, <<D(2024, 3, 4)>>, "") EXCEPT
        !.encounters = @ \o <<[PatientId |-> 234567, Age |-> 30, EncounterID |-> 111,
                               encounter_date |-> D(2024, 9, 10), measurement_year |-> 2024]>>,
        !.screenings = @ \o <<[PatientId |-> 234567, screening_date |-> D(2024, 9, 10)]>>,
        !.audits = @ \o <<[PatientId |-> 234567, EncounterID |-> 111,
                           screening_date |-> D(2024, 9, 10), TotalScore |-> 9]>>,
        !.patient_data = @ \o ASC_PatientData(234567, <<"White">>),
        !.payers = @ \o <<[PatientId |-> 234567, Start |-> D(2024, 1, 1), End |-> NaT,
                           Plan |-> "other"]>>]

\* the databases of a batch run: those that take every write, two that refuse
\* one table, and one with two ASC patients
BatchSources ==
    {BatchSnapshot(BatchScreenings(day), strict, evs, "") :
        day \in {D(2024, 9, 10), D(2024, 11, 20)},
        strict \in BOOLEAN,
        evs \in {<<D(2024, 3, 4)>>, <<D(2024, 3, 4), D(2024, 3, 9)>>}}
    \cup {BatchSnapshot(BatchScreenings(D(2024, 9, 10)), FALSE, <<D(2024, 3, 4)>>, t) :
            t \in RefusedTables}
    \cup {BatchSnapshotTwoPatients}

\* ptASC_sub_1 as an earlier run of main.py left it
EarlierASC ==
    [i \in 1..2 |-> [patient_measurement_year_id |-> PmyId(123456, 2023 + i),
                     PatientId |-> 123456, EncounterID |-> 100 + i,
                     screening_date |-> D(2024, 9, 10), numerator |-> TRUE]]

\* a row of ptISERV_sub1, the table the dashboard had before the tables were renamed
EarlierCall(pid, call) ==
    [PatientID |-> pid, patient_measurement_year_id |-> PmyId(pid, 2024), CallID |-> call]

\* the pt* tables of the database when the batch starts: none on a new database
InitialSinks ==
    {[n \in A \cup B |-> IF n = "ptASC_sub_1" THEN EarlierASC ELSE iserv] :
        A \in {{}, {"ptASC_sub_1"}}, B \in {{}, {"ptISERV_sub1"}},
        iserv \in {<<EarlierCall(123456, 301), EarlierCall(123456, 302)>>,
                   <<EarlierCall(123456, 301), EarlierCall(123456, 302),
                     EarlierCall(234567, 399)>>}}

\* main.py before the loop: the first measurement, no sub-measure driven yet
Init ==
    /\ src \in BatchSources
    /\ sink \in InitialSinks
    /\ start = <<sink>>
    /\ faulted = FALSE
    /\ measure = 1
    /\ sub = "none"
    /\ calls = <<>>
    /\ sub_data = <<>>
    /\ InitSubmeasure

Spec == Init /\ [][Next]_vars

-----------------------------------------------------------------------------
(* Properties of the batch run.                                             *)

IsPrefix(a, b) == Len(a) <= Len(b) /\ a = SubSeq(b, 1, Len(a))

\* the steps taken so far on a sub-measure during this get_submeasure_data
StepsOf(s) ==
    LET OfSub(c) == c.sub = s
        Step(c) == c.step
    IN  Map(Filter(calls, OfSub), Step)

\* a step of the sub-measure raised during this get_submeasure_data
RaisedIn(s) == \E i \in 1..Len(calls) : calls[i].sub = s /\ calls[i].raised

\* the sub-measures driven so far during this get_submeasure_data
Driven == {calls[i].sub : i \in 1..Len(calls)}

FourSteps == <<"get_denominator", "get_numerator", "stratify_data", "return_final_data">>

\* the sub-measure follows the step sequence steps: a prefix of it at any time,
\* all of it once its tables are returned, nothing after a step that raised, and
\* no table for it when a step raised
Follows(s, steps) ==
    /\ IsPrefix(StepsOf(s), steps)
    /\ \A i \in 1..Len(calls) :
            calls[i].sub = s /\ calls[i].raised => \A j \in (i + 1)..Len(calls) : calls[j].sub # s
    /\ s \in Keys(sub_data) => StepsOf(s) = steps /\ ~RaisedIn(s)
    /\ RaisedIn(s) => s \notin Keys(sub_data) /\ (s \o "_stratify") \notin Keys(sub_data)
    /\ sub = s /\ pc = "Final" => StepsOf(s) = steps

\* C1 (as stated): every sub-measure get_submeasure_data runs is taken through
\* get_denominator, get_numerator, stratify_data, return_final_data, once each and
\* in that order; after a step that raises no later step of the sub-measure runs
\* and no tables are returned for it
C1_FourStepsEverySubmeasure == \A s \in Driven : Follows(s, FourSteps)

\* C1 (amended): the same for every sub-measure but I-SERV sub-measure 2, which is
\* taken through get_denominator, get_numerator, _set_stratify and
\* return_final_data, its stratify_data never being called
C1_FourStepsButIServ2 ==
    \A s \in Driven :
        Follows(s, IF s = "ISERV_sub_2"
                   THEN <<"get_denominator", "get_numerator", "_set_stratify", "return_final_data">>
                   ELSE FourSteps)

\* I-SERV sub-measure 2 has returned its tables, and a step of an earlier
\* sub-measure of the batch has raised
C1_Witness ==
    /\ sub = "ISERV_sub_2"
    /\ pc = "Final"
    /\ "ISERV_sub_2" \in Keys(sub_data)
    /\ "ptASC_sub_1" \notin DOMAIN sink

\* C4: the population of ASC sub-measure 2 (of I-SERV sub-measure 2) is made of
\* patients of the sub-measure 1 table computed in this run (for ASC: with
\* numerator = true there), never of a table an earlier run left in the database
C4_Sub2PopulationOfThisRun ==
    /\ sub = "ASC_sub_2" /\ pc \in {"DenominatorComputed", "NumeratorComputed", "Stratified", "Final"}
        => \A r \in Rows(populace) :
               \E c \in Rows(Lookup(sub_data, "ASC_sub_1")) :
                   c.PatientId = r.PatientId /\ c.numerator
    /\ sub = "ISERV_sub_2" /\ pc \in {"DenominatorComputed", "NumeratorComputed", "Stratified", "Final"}
        => \A r \in Rows(populace) :
               \E c \in Rows(Lookup(sub_data, "ISERV_sub_1")) : c.PatientID = r.PatientID

\* the get_numerator entries of calls list the methods in the order given for
\* their sub-measure: all of them when the step returned, the ones up to the
\* method that raised otherwise
NumeratorOrder(Order(_)) ==
    \A i \in 1..Len(calls) :
        calls[i].step = "get_numerator" =>
            /\ calls[i].inner # <<>>
            /\ IsPrefix(calls[i].inner, Order(calls[i].sub))
            /\ ~calls[i].raised => calls[i].inner = Order(calls[i].sub)

\* C8 (as stated): get_numerator of every sub-measure, SDOH included, runs
\* _apply_time_constraint first and _find_performance_met second, once each
C8_TimeConstraintThenPerformance ==
    LET Order(s) == <<"_apply_time_constraint", "_find_performance_met">>
    IN  NumeratorOrder(Order)

\* C8 (amended): that order holds for every sub-measure but SDOH, whose
\* get_numerator runs _find_performance_met first and _apply_time_constraint
\* second; the second one sets SDOH's numerator flag
C8_TimeConstraintThenPerformanceButSDOH ==
    LET Order(s) == IF s = "SDOH"
                    THEN <<"_find_performance_met", "_apply_time_constraint">>
                    ELSE <<"_apply_time_constraint", "_find_performance_met">>
    IN  /\ NumeratorOrder(Order)
        /\ sub = "SDOH" /\ pc = "DenominatorComputed"
            => \A r \in Rows(populace) : "numerator" \notin DOMAIN r
        /\ sub = "SDOH" /\ pc = "NumeratorComputed"
            => \A r \in Rows(populace) : "numerator" \in DOMAIN r

\* SDOH's get_numerator has returned and set a numerator flag to true
C8_Witness ==
    /\ sub = "SDOH"
    /\ pc = "NumeratorComputed"
    /\ \E r \in Rows(populace) : r.numerator

\* the table get_submeasure_data has entered under key k so far, empty when none
ReturnedTable(k) == IF k \in Keys(sub_data) THEN Lookup(sub_data, k) ELSE <<>>

\* the number of business days after day a up to and including day b
ISERV_BusinessDaysLater(a, b) == Cardinality({d \in (a + 1)..b : Weekday(d) < 5})

\* the count reported for a call of day c matched to an evaluation or service of
\* day e is right when both are business days of the same year
ISERV_CountIsRight(c, e, count) ==
    Weekday(c) < 5 /\ Weekday(e) < 5 /\ YearOf(c) = YearOf(e)
        => /\ count = ISERV_BusinessDaysLater(c, e)
           /\ e = c => count = 0
           /\ Weekday(c) = 0 /\ e = c + 1 => count = 1

\* the service of the database a cohort row of I-SERV sub-measure 2 was matched to
ISERV_ServiceOfRow(r) ==
    CHOOSE e \in Rows(src.services) : e.service_encounter_id = r.service_encounter_id

\* C12: a call made on a business day whose evaluation (sub-measure 1) or
\* service (sub-measure 2) falls on a business day k business days later in the
\* same year is reported with the count k: 1 for a Monday call served on the
\* Tuesday, 0 for a call served the same day
C12_BusinessDayCount ==
    /\ \A r \in Rows(ReturnedTable("ISERV_sub_1")) :
           ISERV_CountIsRight(ISERV_CallOfRow(r).StartDate, ISERV_EvalOfRow(r).VisitDateTime,
                              r.business_days_from_call_to_eval)
    /\ \A r \in Rows(ReturnedTable("ISERV_sub_2")) :
           ISERV_CountIsRight(r.StartDate, ISERV_ServiceOfRow(r).VisitDateTime,
                              r.business_days_from_call_to_service)

\* both sub-measures have returned: sub-measure 1 a call evaluated the same day,
\* sub-measure 2 a Monday call served on the Tuesday and a Friday call served on
\* the Tuesday after the weekend
C12_Witness ==
    /\ \E r \in Rows(ReturnedTable("ISERV_sub_1")) :
           /\ ISERV_EvalOfRow(r).VisitDateTime = ISERV_CallOfRow(r).StartDate
           /\ r.business_days_from_call_to_eval = 0
    /\ \E r \in Rows(ReturnedTable("ISERV_sub_2")) :
           /\ Weekday(r.StartDate) = 0
           /\ r.business_days_from_call_to_service = 1
    /\ \E r \in Rows(ReturnedTable("ISERV_sub_2")) :
           /\ Weekday(r.StartDate) = 4
           /\ r.business_days_from_call_to_service = 2

\* the date of the evaluation (sub-measure 1) or service (sub-measure 2) matched
\* to the call of a populace row
ISERV_MatchDate(r) == IF sub = "ISERV_sub_1" THEN r.eval_date ELSE r.service_date

\* the columns a call has in the exclusions table
ISERV_ExclusionOf(r) == [PatientID |-> r.PatientID, StartDate |-> r.StartDate]

\* a get_numerator step of an I-SERV sub-measure that returns leaves the calls of
\* the denominator partitioned into cohort and exclusions
ISERV_NumeratorPartition ==
    sub \in {"ISERV_sub_1", "ISERV_sub_2"}
    /\ pc = "DenominatorComputed" /\ pc' = "NumeratorComputed"
        => /\ \A r \in Rows(populace') : ISERV_MatchDate(r) # NaT
           /\ \A c \in Rows(populace) :
                  ISERV_MatchDate(c) = NaT
                    => /\ \A r \in Rows(populace') : r.CallID # c.CallID
                       /\ ISERV_ExclusionOf(c) \in Rows(aux')
           /\ \A r \in Rows(populace') : ISERV_ExclusionOf(r) \notin Rows(aux')
           /\ \A c \in Rows(populace) :
                  ISERV_MatchDate(c) # NaT => \E r \in Rows(populace') : r.CallID = c.CallID

\* C13: get_numerator of the I-SERV sub-measures partitions the calls of the
\* denominator: afterwards no cohort row has a null evaluation/service date, every
\* denominator call without a match has left the cohort and is in the exclusions
\* table by PatientID and StartDate, and no call is in both
C13_NumeratorPartitionsCalls == [][ISERV_NumeratorPartition]_vars

\* get_numerator of sub-measure 2 has kept a call and excluded another, after
\* sub-measure 1 did the same
C13_Witness ==
    /\ sub = "ISERV_sub_2"
    /\ pc = "NumeratorComputed"
    /\ populace # <<>>
    /\ aux # <<>>
    /\ "IServ_sub1_exclusions" \in Keys(sub_data)
    /\ Lookup(sub_data, "ISERV_sub_1") # <<>>

\* the patient of populace row r has a qualifying encounter after the screening
\* of the row
CDFCH_HasLaterEncounter(r) ==
    \E i \in 1..Len(src.cdfch_visits) :
        /\ src.cdfch_visits[i].PatientId = r.PatientId
        /\ src.cdfch_visits[i].VisitDateTime > r.screening_date

\* C16: once CDF-CH has set the numerators, a screened record with a score of 9
\* or less is met with 'Negative screening', and a record with a score above 9
\* is met with 'Positive screening with follow up' exactly when the patient has
\* a qualifying encounter after the screening date, and is not met otherwise
C16_ScreeningDecidesNumerator ==
    (sub = "CDF_CH" /\ pc = "NumeratorComputed" /\ err = "none") =>
        \A i \in 1..Len(populace) :
            populace[i].screening_score # NaT =>
                IF populace[i].screening_score <= 9
                THEN /\ populace[i].numerator = TRUE
                     /\ populace[i].numerator_desc = "Negative screening"
                ELSE IF CDFCH_HasLaterEncounter(populace[i])
                     THEN /\ populace[i].numerator = TRUE
                          /\ populace[i].numerator_desc = "Positive screening with follow up"
                     ELSE populace[i].numerator = FALSE

\* the whole years in a number of days: the a with a * 365.25 <= days < (a + 1) * 365.25
FloorYears(days) == CHOOSE a \in 0..150 : a * 1461 <= days * 4 /\ days * 4 < (a + 1) * 1461

\* the age of the patient of a visit at the visit
AgeAtVisit(v) == FloorYears(v.VisitDateTime - v.DOB)

\* the encounters of the populace
PopulaceEncounters == {populace[i].EncounterId : i \in 1..Len(populace)}

\* visit v of CDF-CH is the first one of its patient in its year, and the patient
\* has no depression or bipolar diagnosis before it
CDFCH_Candidate(v) ==
    /\ \A j \in 1..Len(src.cdfch_visits) :
            (/\ src.cdfch_visits[j].PatientId = v.PatientId
             /\ YearOf(src.cdfch_visits[j].VisitDateTime) = YearOf(v.VisitDateTime))
                => v.VisitDateTime <= src.cdfch_visits[j].VisitDateTime
    /\ \A j \in 1..Len(src.depressions \o src.bipolars) :
            (src.depressions \o src.bipolars)[j].PatientId = v.PatientId
                => v.VisitDateTime <= (src.depressions \o src.bipolars)[j].exclusion_date

ASC_DementiaThrough(e) ==
    \E i \in 1..Len(src.dementia) :
        /\ src.dementia[i].PatientId = e.PatientId
        /\ src.dementia[i].exclusion_year <= e.measurement_year

\* the patient-years of the populace
PopulaceKeys == {populace[i].patient_measurement_year_id : i \in 1..Len(populace)}

\* C18: the denominator of ASC sub-measure 1 holds the patient-year of an adult
\* encounter exactly when the patient has no dementia diagnosis recorded in a
\* year up to that measurement year
C18_DementiaThroughYearExcludes ==
    (sub = "none" /\ pc = "DenominatorComputed" /\ err = NoError) =>
        \A i \in 1..Len(src.encounters) :
            src.encounters[i].Age >= 18 =>
                (PmyId(src.encounters[i].PatientId, src.encounters[i].measurement_year)
                        \in PopulaceKeys
                    <=> ~ASC_DementiaThrough(src.encounters[i]))

\* a diagnosis of 2025 has removed the patient-year 2025 of an adult and left
\* the patient-year 2024
C18_Witness ==
    /\ sub = "none" /\ pc = "DenominatorComputed" /\ err = NoError
    /\ \A i \in 1..Len(src.dementia) : src.dementia[i].exclusion_year = 2025
    /\ src.dementia # <<>>
    /\ \E i, j \in 1..Len(src.encounters) :
            /\ src.encounters[i].measurement_year = 2024 /\ src.encounters[i].Age >= 18
            /\ src.encounters[j].measurement_year = 2025 /\ src.encounters[j].Age >= 18
            /\ PopulaceKeys = {PmyId(src.encounters[i].PatientId, 2024)}

\* the names of the tables main.py writes for the items of d
SinkNames(d) == {SinkName(k) : k \in Keys(d)} \ {""}

\* where the loop stands at every moment: a raised exception is caught, the top
\* of an iteration starts the next measurement, a collected measurement is
\* written, and the batch does not end with an exception
C19_LoopStanding ==
    /\ (measure \in 1..Len(measure_list) /\ err # NoError) => ENABLED main_except
    /\ (measure \in 1..Len(measure_list) /\ sub = "none") => ENABLED get_denominator
    /\ (measure \in 1..Len(measure_list) /\ err = NoError /\ Collected) => ENABLED main_to_sql
    /\ measure = Len(measure_list) + 1 => err = NoError

\* the end of an iteration of a run, with or without an exception: the loop goes
\* to the next measurement with nothing left of the exception; the tables of a
\* measurement that was collected are written whatever happened to the
\* measurements before it, up to the table the database refuses
C19_IterationEnds ==
    (measure' # measure /\ start' = start) =>
        /\ measure' = measure + 1
        /\ sub' = "none" /\ pc' = "Uninitialized" /\ err' = NoError
        /\ err # NoError => sink' = sink
        /\ (err = NoError /\ src.refused \notin SinkNames(sub_data)) =>
                \A k \in Keys(sub_data) :
                    SinkName(k) # "" =>
                        /\ SinkName(k) \in DOMAIN sink'
                        /\ sink'[SinkName(k)] = Lookup(sub_data, k)

\* C19: when get_submeasure_data or a write to the sink raises, the loop goes on
\* with the next measurement of measure_list, which is computed and written,
\* and the batch does not end with the exception
C19_BatchContinuesAfterFailure == [](C19_LoopStanding) /\ [][C19_IterationEnds]_vars

\* the batch has ended: ASC raised and left no table, the write of
\* ptCDF_CH_stratify was refused, and DEP-REM and SDOH after them are written
C19_Witness ==
    /\ measure = Len(measure_list) + 1
    /\ src.refused = "ptCDF_CH_stratify"
    /\ "ptASC_sub_1" \notin DOMAIN sink
    /\ "ptCDF_CH" \in DOMAIN sink /\ "ptCDF_CH_stratify" \notin DOMAIN sink
    /\ {"ptDepRem", "ptDepRem_stratify", "ptSDOH", "ptSDOH_stratify"} \subseteq DOMAIN sink

\* the keys get_submeasure_data of measurement m returns when nothing raises
MeasureKeys(m) ==
    UNION {{Submeasures(m)[i], Submeasures(m)[i] \o "_stratify"}
                \cup (IF m = "I_Serv" THEN {ExclusionsKey(Submeasures(m)[i])} ELSE {}) :
           i \in 1..Len(Submeasures(m))}

\* the tables of the sink that belong to measurement m
OutputTables(m) == {SinkName(k) : k \in MeasureKeys(m)} \ {""}

\* table n of the sink holds what this run computed for it
HoldsThisRun(n) ==
    /\ n \in DOMAIN sink
    /\ \E k \in Keys(sub_data) : SinkName(k) = n /\ sink[n] = Lookup(sub_data, k)

\* C20: when the loop has finished with a measurement, either every output table
\* of the measurement holds the data of this run, or the measurement failed and
\* none of its output tables is in the sink
C20_MeasureAllOrNothing ==
    (sub = "none" /\ measure \in 2..(Len(measure_list) + 1)) =>
        \/ \A n \in OutputTables(measure_list[measure - 1]) : HoldsThisRun(n)
        \/ \A n \in OutputTables(measure_list[measure - 1]) : n \notin DOMAIN sink

\* main.py has been run twice in a row on the same database and both runs are over
RanTwice == measure = Len(measure_list) + 1 /\ Len(start) = 2

\* C21: after main.py has been run twice in a row on the same database, with no
\* query failed by the database, the sink holds the tables it held after the
\* first run, whatever it held before
C21_SecondRunChangesNothing == RanTwice => sink = start[2]

\* C25: when main.py started on a sink without any table and the database
\* failed no query, the sink holds the ASC sub-measure 1 cohort table after the
\* run, and after the run that follows it
C25_NewSinkGetsASC ==
    (measure = Len(measure_list) + 1 /\ ~faulted /\ DOMAIN start[1] = {}) =>
        "ptASC_sub_1" \in DOMAIN sink

\* the dates of the evaluations of the patient of call row r on or after the call
ISERV_LaterEvalDates(r) ==
    {src.evals[i].VisitDateTime : i \in
        {i \in 1..Len(src.evals) : /\ src.evals[i].PatientId = r.PatientID
                                    /\ src.evals[i].VisitDateTime >= r.StartDate}}

\* C22: in the denominator of I-SERV sub-measure 1 a call is matched to the
\* earliest evaluation of its patient on or after the call, in whatever order
\* the evaluations were returned, and to none when there is no such evaluation
C22_MatchIsEarliestLater ==
    (sub = "none" /\ pc = "DenominatorComputed" /\ err = NoError) =>
        \A i \in 1..Len(populace) :
            IF ISERV_LaterEvalDates(populace[i]) = {}
            THEN populace[i].eval_date = NaT
            ELSE /\ populace[i].eval_date \in ISERV_LaterEvalDates(populace[i])
                 /\ \A d \in ISERV_LaterEvalDates(populace[i]) : populace[i].eval_date <= d

\* the age, floor(days / 365.25), of the patient of cohort row r at the index
\* encounter of the row
DEPREM_AgeAtIndex(r) ==
    LET e == CHOOSE e \in Rows(src.encounters) : e.EncounterID = r.index_encounter_id
    IN  FloorYears(DateOf(e.Date) - e.DOB)

\* C23: every row of the cohort table DEP-REM returns is of a patient aged 12 or
\* more at the index encounter, and the stratify table has no row for the index
\* group of a younger patient
C23_CohortAgedTwelveOrMore ==
    (sub = "none" /\ pc = "Final") =>
        /\ \A i \in 1..Len(out.cohort) : DEPREM_AgeAtIndex(out.cohort[i]) >= 12
        /\ \A i \in 1..Len(out.cohort) :
                DEPREM_AgeAtIndex(out.cohort[i]) < 12 =>
                    \A j \in 1..Len(out.stratify) :
                        out.stratify[j].patient_measurement_year_id
                            # out.cohort[i].patient_measurement_year_id

\* C24: I_Serv.get_submeasure_data does not raise on a sub-measure that has
\* returned its tables and had no call to exclude
C24_NoExclusionsNoException ==
    (/\ measure \in 1..Len(measure_list)
     /\ measure_list[measure] = "I_Serv"
     /\ pc = "Final"
     /\ aux = <<>>) => err = NoError

\* C26: every row of the cohort table CDF-CH returns with numerator = true has
\* a screening of the patient in the measurement year of the row
C26_NumeratorNeedsScreening ==
    (sub = "CDF_CH" /\ pc = "Final") =>
        \A i \in 1..Len(out.cohort) :
            out.cohort[i].numerator = TRUE => out.cohort[i].screening_encounter_id # NaT

\* the database s with one race row returned for the patient of s.encounters
ASC_WithOneRaceRow(s) ==
    [s EXCEPT !.patient_data =
        IF s.encounters = <<>> THEN <<>>
        ELSE ASC_PatientData(s.encounters[1].PatientId, <<"White">>)]

\* C27: the Medicaid flag ASC sub-measure 1 gives a cohort record is the one it
\* gives the record on the database that differs only in returning a single
\* race row for the patient
C27_MedicaidWhateverTheRaceRows ==
    (sub = "none" /\ pc = "Stratified") =>
        \A t \in Rows(stratify) :
            \A u \in Rows(ASC1_stratify_data(ASC_WithOneRaceRow(src), populace).rows) :
                t.patient_measurement_year_id = u.patient_measurement_year_id
                    => t.Medicaid = u.Medicaid

\* C28: the business-day count of every row of the cohort tables I-SERV returns
\* is at least 0, whatever the weekdays of the call and of the evaluation or
\* service
C28_CountNeverNegative ==
    /\ \A r \in Rows(ReturnedTable("ISERV_sub_1")) :
           r.business_days_from_call_to_eval >= 0
    /\ \A r \in Rows(ReturnedTable("ISERV_sub_2")) :
           r.business_days_from_call_to_service >= 0

\* C29: the key ASC sub-measure 1 rebuilds for the Medicaid result of a cohort
\* record equals the record's patient_measurement_year_id, whatever the number of
\* digits of the patient id, and a cohort record with an insurance span active on
\* its date has a row in the returned stratify table
C29_RebuiltKeyIsCohortKey ==
    pc = "Final" =>
        \A r \in Rows(out.cohort) :
            /\ ASC1_recreate_patient_measurement_year_id(ASC_EncounterOfRow(r))
                    = r.patient_measurement_year_id
            /\ ActiveSpans(r.PatientId, ASC_EncounterOfRow(r).encounter_date) # {}
                    => r.patient_measurement_year_id \in KeysOf(out.stratify)

\* the age in whole calendar years on day d of a patient born on day dob
CalendarAge(dob, d) ==
    LET b == CivilFromDays(dob)
        v == CivilFromDays(d)
        BeforeBirthday == v.month < b.month \/ (v.month = b.month /\ v.day < b.day)
    IN  v.year - b.year - (IF BeforeBirthday THEN 1 ELSE 0)

\* C30: the age the denominators of SDOH and CDF-CH compute for an encounter is
\* 18 or more exactly from the 18th birthday on and 12 or more exactly from the
\* 12th birthday on, and SDOH keeps the patient-year of every encounter on or
\* after the 18th birthday
C30_AgeAgreesAtBirthdays ==
    (sub \in {"CDF_CH", "SDOH"} /\ pc = "DenominatorComputed" /\ err = NoError) =>
        /\ \A r \in Rows(populace) :
               /\ r.age >= 18 <=> CalendarAge(r.DOB, r.VisitDateTime) >= 18
               /\ r.age >= 12 <=> CalendarAge(r.DOB, r.VisitDateTime) >= 12
        /\ sub = "SDOH" =>
               \A v \in Rows(src.sdoh_visits) :
                   CalendarAge(v.DOB, v.VisitDateTime) >= 18
                       => \E r \in Rows(populace) : r.PatientId = v.PatientId
====
